---- MODULE Spec2Model ----
(***************************************************************************)
(* Request-proxying core of the multi-tenant API gateway: sliding-window   *)
(* rate limiter, circuit breaker, retry wrapper, tenant authentication and *)
(* the proxy pipeline, as state machines over the shared cache and a       *)
(* millisecond clock.                                                      *)
(***************************************************************************)
EXTENDS Integers, Sequences, FiniteSets, TLC

VARIABLES
    now,          \* Date.now(), milliseconds
    nticks,       \* clock advances (and probes between requests) taken so far
    cbCfg,        \* CircuitBreakerConfig of the breaker under test
    cbStored,     \* value under the cb: key, <<>> when the key is absent
    cbExpireAt,   \* instant at which the cb: key expires
    cbLast,       \* last breaker operation: name, status read, result, instant
    cbRun,        \* run of recordFailure() calls since CLOSED with failures=0
    cbOpenedAt,   \* instant of the last write that stored OPEN, Null if none
    cbProbe,      \* canExecute() calls answered true since the breaker's timeout elapsed
    cbProc,       \* breaker operations in flight, one per caller, and the calls completed
    rlCfg,        \* RateLimitConfig of the key under test
    zset,         \* sorted set under ratelimit:{key}: members [score, id]
    rlExpireAt,   \* instant at which the ratelimit: key expires
    rlCalls,      \* checkRateLimit calls made so far (names the next member)
    rlAllowed,    \* calls answered allowed=true: [ts, id]
    rlLast,       \* last RateLimitResult, with the set the call found and left
    rlProc,       \* concurrent callers of checkRateLimit: position and locals
    iso,          \* rate-limit keys of two tenants, and the first tenant's key had it run alone
    rtCfg,        \* RetryConfig passed to withRetry
    rtPc,         \* position of withRetry: "call", "sleep" or "done"
    rtAttempt,    \* loop variable `attempt`
    rtLastError,  \* lastError, <<>> while undefined
    rtLastStatusCode, \* lastStatusCode, Null while undefined
    rtDelay,      \* delay of the pending sleep
    rtCalls,      \* invocations of fn made by this run
    rtOnRetry,    \* invocations of onRetry made by this run
    rtResult,     \* RetryResult returned, <<>> until the run returns
    rtStopped,    \* an attempt of this run failed with a non-retryable error
    rtLate,       \* fn was invoked after such an attempt
    tenantActive, \* isActive of the tenant row in the store
    tcache,       \* value under tenant:apikey:{key}, <<>> when absent
    tcExpireAt,   \* instant at which the tenant cache key expires
    vaLog,        \* validateApiKey calls made directly: their number, the last one, history
    vaProc,       \* validateApiKey calls in flight, one per caller, and what they returned
    hcCfg,        \* config of the health checker of the upstream
    hcRegistered, \* the manager of this process holds a checker for the upstream
    hcStored,     \* value under the health: key, <<>> when absent
    hcExpireAt,   \* instant at which the health: key expires
    hcProbes,     \* probes completed so far
    hcLast,       \* last probe: its result, the status it read and the one it wrote
    hm,           \* HealthCheckManager: its map, the checkers made, the timers running
    hcRun,        \* one HealthChecker object: its intervalId and its check() calls in flight
    route,        \* resilience switches of the tenant's route
    rs,           \* routing: the tenant's active routes, round-robin counters, calls made
    pxEnv,        \* timing of the run: clock steps between requests, hook delays
    req,          \* the request in flight: api key, path match, tenant, position
    pxTrace,      \* stages the request has run, in order
    pxUpCalls,    \* upstream calls made for the request
    pxReply,      \* reply sent for the request
    pxSnap,       \* breaker key as it was when the request arrived
    pxRec         \* breaker calls handleProxy made for the request, in order

rlVars == <<rlCfg, zset, rlExpireAt, rlCalls, rlAllowed, rlLast, rlProc, iso>>
rtVars == <<rtCfg, rtPc, rtAttempt, rtLastError, rtLastStatusCode, rtDelay,
            rtCalls, rtOnRetry, rtResult, rtStopped, rtLate>>
storeVars == <<tenantActive, tcache, tcExpireAt, vaLog, vaProc>>
hcVars == <<hcCfg, hcRegistered, hcStored, hcExpireAt, hcProbes, hcLast, hm,
            hcRun>>
pxVars == <<route, rs, pxEnv, req, pxTrace, pxUpCalls, pxReply, pxSnap, pxRec>>
cbVars == <<cbCfg, cbStored, cbExpireAt, cbLast, cbRun, cbOpenedAt, cbProbe,
            cbProc>>
clockVars == <<now, nticks>>

vars == <<now, nticks, cbCfg, cbStored, cbExpireAt, cbLast, cbRun, cbOpenedAt,
          cbProbe, cbProc, rlCfg, zset, rlExpireAt, rlCalls, rlAllowed, rlLast,
          rlProc, iso,
          rtCfg, rtPc, rtAttempt, rtLastError, rtLastStatusCode, rtDelay,
          rtCalls, rtOnRetry, rtResult, rtStopped, rtLate,
          tenantActive, tcache, tcExpireAt, vaLog, vaProc, hcCfg, hcRegistered, hcStored,
          hcExpireAt, hcProbes, hcLast, hm, hcRun, route, rs, pxEnv, req,
          pxTrace, pxUpCalls, pxReply, pxSnap,
          pxRec>>

----------------------------------------------------------------------------
(* Bounds *)

MaxTicks == 5
MaxCalls == 4
MaxLimit == 2
MaxRetries == 2
MaxRequests == 2
MaxPxTicks == 1
BaseDelayMs == 4
MaxDelayMs == 8
MaxThreshold == 2
TimeoutMs == 2
MaxCallers == 2
MaxConcCalls == 3
MaxConcTicks == 2
MaxHcProbes == 4
MaxTriples == 2
MaxCheckers == 2
MaxTimers == 2
MaxRoutes == 2
MaxUpstreams == 3
MaxSelections == 5
MaxMatches == 2

Null == 0 - 1

Max(a, b) == IF a >= b THEN a ELSE b
Min(a, b) == IF a <= b THEN a ELSE b
CeilDiv(a, b) == (a + b - 1) \div b

----------------------------------------------------------------------------
(* Circuit breaker *)

CbTtlBufferMs == 60000

\* getDefaultStatus(): CLOSED, zero counters, lastStateChange = Date.now()
getDefaultStatus(t) ==
    [state |-> "CLOSED", failures |-> 0, successes |-> 0,
     lastFailureTime |-> Null, lastStateChange |-> t]

\* getTtl(): seconds
getTtl(cfg) == CeilDiv(cfg.timeout + CbTtlBufferMs, 1000)

\* getStatus(): the stored status, or the default one when the key is absent
\* (never written, or expired)
getStatus(stored, expireAt, t) ==
    IF stored = <<>> \/ t >= expireAt THEN getDefaultStatus(t) ELSE stored[1]

\* canExecute() that rewrites the status it read when it refuses
canExecuteOutcome_TouchesOnRefusal(status, cfg, t1, t2) ==
    IF ~cfg.enabled THEN [ret |-> TRUE, write |-> <<>>]
    ELSE IF status.state = "CLOSED" THEN [ret |-> TRUE, write |-> <<>>]
    ELSE IF status.state = "OPEN" THEN
        IF t1 - status.lastStateChange >= cfg.timeout
        THEN [ret |-> TRUE,
              write |-> <<[status EXCEPT !.state = "HALF_OPEN",
                                         !.successes = 0,
                                         !.lastStateChange = t2]>>]
        ELSE [ret |-> FALSE, write |-> <<status>>]
    ELSE [ret |-> TRUE, write |-> <<>>]

\* canExecute(): the boolean returned and the status written (<<>> if none);
\* t1 and t2 are the two Date.now() readings of the OPEN branch
canExecuteOutcome(status, cfg, t1, t2) ==
    IF ~cfg.enabled THEN [ret |-> TRUE, write |-> <<>>]
    ELSE IF status.state = "CLOSED" THEN [ret |-> TRUE, write |-> <<>>]
    ELSE IF status.state = "OPEN" THEN
        IF t1 - status.lastStateChange >= cfg.timeout
        THEN [ret |-> TRUE,
              write |-> <<[status EXCEPT !.state = "HALF_OPEN",
                                         !.successes = 0,
                                         !.lastStateChange = t2]>>]
        ELSE [ret |-> FALSE, write |-> <<>>]
    ELSE [ret |-> TRUE, write |-> <<>>]

\* recordSuccess() that clears lastFailureTime when it closes the breaker
recordSuccessWrite_Clears(status, cfg, t) ==
    IF ~cfg.enabled THEN <<>>
    ELSE IF status.state = "HALF_OPEN" THEN
        IF status.successes + 1 >= cfg.successThreshold
        THEN <<[state |-> "CLOSED", failures |-> 0, successes |-> 0,
                lastFailureTime |-> Null, lastStateChange |-> t]>>
        ELSE <<[status EXCEPT !.successes = status.successes + 1]>>
    ELSE IF status.state = "CLOSED" /\ status.failures > 0
        THEN <<[status EXCEPT !.failures = 0]>>
    ELSE <<>>

\* recordSuccess() that closes the breaker without resetting failures
recordSuccessWrite_KeepsFailures(status, cfg, t) ==
    IF ~cfg.enabled THEN <<>>
    ELSE IF status.state = "HALF_OPEN" THEN
        IF status.successes + 1 >= cfg.successThreshold
        THEN <<[state |-> "CLOSED", failures |-> status.failures, successes |-> 0,
                lastFailureTime |-> status.lastFailureTime,
                lastStateChange |-> t]>>
        ELSE <<[status EXCEPT !.successes = status.successes + 1]>>
    ELSE IF status.state = "CLOSED" /\ status.failures > 0
        THEN <<[status EXCEPT !.failures = 0]>>
    ELSE <<>>

\* recordSuccess() that does not count a success in HALF_OPEN
recordSuccessWrite_NoCount(status, cfg, t) ==
    IF ~cfg.enabled THEN <<>>
    ELSE IF status.state = "HALF_OPEN" THEN
        IF status.successes + 1 >= cfg.successThreshold + 1
        THEN <<[state |-> "CLOSED", failures |-> 0, successes |-> 0,
                lastFailureTime |-> status.lastFailureTime,
                lastStateChange |-> t]>>
        ELSE <<status>>
    ELSE IF status.state = "CLOSED" /\ status.failures > 0
        THEN <<[status EXCEPT !.failures = 0]>>
    ELSE <<>>

\* recordSuccess(): the status written (<<>> if none)
recordSuccessWrite(status, cfg, t) ==
    IF ~cfg.enabled THEN <<>>
    ELSE IF status.state = "HALF_OPEN" THEN
        IF status.successes + 1 >= cfg.successThreshold
        THEN <<[state |-> "CLOSED", failures |-> 0, successes |-> 0,
                lastFailureTime |-> status.lastFailureTime,
                lastStateChange |-> t]>>
        ELSE <<[status EXCEPT !.successes = status.successes + 1]>>
    ELSE IF status.state = "CLOSED" /\ status.failures > 0
        THEN <<[status EXCEPT !.failures = 0]>>
    ELSE <<>>

\* recordFailure() that opens one failure late (> instead of >=)
recordFailureWrite_Late(status, cfg, t) ==
    IF ~cfg.enabled THEN <<>>
    ELSE IF status.state = "HALF_OPEN" THEN
        <<[state |-> "OPEN", failures |-> status.failures + 1, successes |-> 0,
           lastFailureTime |-> t, lastStateChange |-> t]>>
    ELSE IF status.state = "CLOSED" THEN
        IF status.failures + 1 > cfg.failureThreshold
        THEN <<[state |-> "OPEN", failures |-> status.failures + 1,
                successes |-> 0, lastFailureTime |-> t, lastStateChange |-> t]>>
        ELSE <<[status EXCEPT !.failures = status.failures + 1,
                              !.lastFailureTime = t]>>
    ELSE <<>>

\* recordFailure() that also counts a failure reported while OPEN
recordFailureWrite_CountsInOpen(status, cfg, t) ==
    IF ~cfg.enabled THEN <<>>
    ELSE IF status.state = "HALF_OPEN" THEN
        <<[state |-> "OPEN", failures |-> status.failures + 1, successes |-> 0,
           lastFailureTime |-> t, lastStateChange |-> t]>>
    ELSE IF status.state = "CLOSED" THEN
        IF status.failures + 1 >= cfg.failureThreshold
        THEN <<[state |-> "OPEN", failures |-> status.failures + 1,
                successes |-> 0, lastFailureTime |-> t, lastStateChange |-> t]>>
        ELSE <<[status EXCEPT !.failures = status.failures + 1,
                              !.lastFailureTime = t]>>
    ELSE <<[status EXCEPT !.lastFailureTime = t]>>

\* recordFailure() that keeps the successes accumulated in HALF_OPEN
recordFailureWrite_KeepsSuccesses(status, cfg, t) ==
    IF ~cfg.enabled THEN <<>>
    ELSE IF status.state = "HALF_OPEN" THEN
        <<[state |-> "OPEN", failures |-> status.failures + 1,
           successes |-> status.successes,
           lastFailureTime |-> t, lastStateChange |-> t]>>
    ELSE IF status.state = "CLOSED" THEN
        IF status.failures + 1 >= cfg.failureThreshold
        THEN <<[state |-> "OPEN", failures |-> status.failures + 1,
                successes |-> 0, lastFailureTime |-> t, lastStateChange |-> t]>>
        ELSE <<[status EXCEPT !.failures = status.failures + 1,
                              !.lastFailureTime = t]>>
    ELSE <<>>

\* recordFailure(): the status written (<<>> if none)
recordFailureWrite(status, cfg, t) ==
    IF ~cfg.enabled THEN <<>>
    ELSE IF status.state = "HALF_OPEN" THEN
        <<[state |-> "OPEN", failures |-> status.failures + 1, successes |-> 0,
           lastFailureTime |-> t, lastStateChange |-> t]>>
    ELSE IF status.state = "CLOSED" THEN
        IF status.failures + 1 >= cfg.failureThreshold
        THEN <<[state |-> "OPEN", failures |-> status.failures + 1,
                successes |-> 0, lastFailureTime |-> t, lastStateChange |-> t]>>
        ELSE <<[status EXCEPT !.failures = status.failures + 1,
                              !.lastFailureTime = t]>>
    ELSE <<>>

\* setStatus(): SETEX key ttl value; an operation that writes nothing leaves
\* the key and its expiry as they are
setStatus(write, t) ==
    IF write = <<>>
    THEN UNCHANGED <<cbStored, cbExpireAt>>
    ELSE /\ cbStored' = write
         /\ cbExpireAt' = t + getTtl(cbCfg) * 1000

CbConfigs ==
    [enabled : BOOLEAN, failureThreshold : 1..MaxThreshold,
     successThreshold : 1..MaxThreshold, timeout : {TimeoutMs}]

NoOp == [op |-> "none", before |-> getDefaultStatus(0), ret |-> TRUE,
         at |-> 0, wrote |-> FALSE]

NoRun == [len |-> 0, gapOk |-> TRUE]

CbOps == {"canExecute", "recordSuccess", "recordFailure"}

\* no breaker operation in flight: pending is the status a caller is about
\* to write, begun and done count the calls of each operation
NoBreakerCalls ==
    [pc |-> [p \in 1..MaxCallers |-> "idle"],
     op |-> [p \in 1..MaxCallers |-> "none"],
     pending |-> [p \in 1..MaxCallers |-> <<>>],
     begun |-> [o \in CbOps |-> 0], done |-> [o \in CbOps |-> 0]]

InitCB(configs) ==
    /\ cbCfg \in configs
    /\ cbStored = <<>>
    /\ cbExpireAt = 0
    /\ cbLast = NoOp
    /\ cbRun = NoRun
    /\ cbOpenedAt = Null
    /\ cbProbe = 0
    /\ cbProc = NoBreakerCalls

InitClock == now = 0 /\ nticks = 0

\* instant of the write that opened the breaker, as a history of the writes
OpenedAtAfter(write, t) ==
    IF write # <<>> /\ write[1].state = "OPEN" THEN t ELSE cbOpenedAt

\* canExecute() at instant now; d is the clock advance between its two
\* Date.now() readings
CanExecuteCall(d) ==
    LET status == getStatus(cbStored, cbExpireAt, now)
        out == canExecuteOutcome(status, cbCfg, now, now + d)
        opens == /\ cbCfg.enabled
                 /\ status.state = "OPEN"
                 /\ now - status.lastStateChange >= cbCfg.timeout
        again == /\ cbCfg.enabled
                 /\ status.state = "HALF_OPEN"
                 /\ cbProbe >= 1
                 /\ out.ret
    IN /\ (out.write = <<>> => d = 0)
       /\ setStatus(out.write, now + d)
       /\ now' = now + d
       /\ cbLast' = [op |-> "canExecute", before |-> status, ret |-> out.ret,
                     at |-> now, wrote |-> out.write # <<>>]
       /\ cbProbe' = IF opens THEN 1 ELSE IF again THEN 2 ELSE cbProbe
       /\ UNCHANGED <<cbCfg, cbRun, cbOpenedAt, cbProc>>

CanExecute ==
    /\ \E d \in {0, 1} : CanExecuteCall(d)
    /\ UNCHANGED nticks
    /\ UNCHANGED rlVars
    /\ UNCHANGED rtVars
    /\ UNCHANGED <<storeVars, hcVars, pxVars>>

\* recordSuccess() at instant now
RecordSuccessCall ==
    LET status == getStatus(cbStored, cbExpireAt, now)
        write == recordSuccessWrite(status, cbCfg, now)
    IN /\ setStatus(write, now)
       /\ cbLast' = [op |-> "recordSuccess", before |-> status, ret |-> TRUE,
                     at |-> now, wrote |-> write # <<>>]
       /\ cbRun' = NoRun
       /\ cbProbe' = 0
       /\ UNCHANGED <<cbCfg, cbOpenedAt, cbProc>>

RecordSuccess ==
    /\ RecordSuccessCall
    /\ UNCHANGED <<now, nticks>>
    /\ UNCHANGED rlVars
    /\ UNCHANGED rtVars
    /\ UNCHANGED <<storeVars, hcVars, pxVars>>

\* recordFailure() at instant now
RecordFailureCall ==
    LET status == getStatus(cbStored, cbExpireAt, now)
        write == recordFailureWrite(status, cbCfg, now)
        live == cbStored # <<>> /\ now < cbExpireAt
        fresh == /\ status.state = "CLOSED" /\ status.failures = 0
                 /\ (cbRun.len = 0 \/ cbRun.len >= cbCfg.failureThreshold)
    IN /\ setStatus(write, now)
       /\ cbLast' = [op |-> "recordFailure", before |-> status, ret |-> TRUE,
                     at |-> now, wrote |-> write # <<>>]
       /\ cbRun' = IF fresh
                   THEN [len |-> 1, gapOk |-> TRUE]
                   ELSE IF cbRun.len = 0 THEN NoRun
                   ELSE [len |-> Min(cbRun.len + 1, MaxThreshold + 1),
                         gapOk |-> cbRun.gapOk /\ live]
       /\ cbOpenedAt' = OpenedAtAfter(write, now)
       /\ cbProbe' = 0
       /\ UNCHANGED <<cbCfg, cbProc>>

RecordFailure ==
    /\ RecordFailureCall
    /\ UNCHANGED <<now, nticks>>
    /\ UNCHANGED rlVars
    /\ UNCHANGED rtVars
    /\ UNCHANGED <<storeVars, hcVars, pxVars>>

CbTickSteps == {1, TimeoutMs, getTtl(cbCfg) * 1000}

TickCB ==
    \E d \in CbTickSteps :
        /\ nticks < MaxTicks
        /\ now' = now + d
        /\ nticks' = nticks + 1
        /\ UNCHANGED cbVars
        /\ UNCHANGED rlVars
        /\ UNCHANGED rtVars
        /\ UNCHANGED <<storeVars, hcVars, pxVars>>

NextCB == CanExecute \/ RecordSuccess \/ RecordFailure \/ TickCB

\* the status an operation writes after reading status at instant t
CbOpWrite(op, status, t) ==
    IF op = "canExecute" THEN canExecuteOutcome(status, cbCfg, t, t).write
    ELSE IF op = "recordSuccess" THEN recordSuccessWrite(status, cbCfg, t)
    ELSE recordFailureWrite(status, cbCfg, t)

\* a breaker operation of one request up to the answer of its getStatus():
\* the branch is chosen on the status read, and an operation that has
\* nothing to write returns
CbRead(p, op) ==
    /\ cbProc.pc[p] = "idle"
    /\ cbProc.begun["canExecute"] + cbProc.begun["recordSuccess"]
           + cbProc.begun["recordFailure"] < MaxConcCalls
    /\ LET write == CbOpWrite(op, getStatus(cbStored, cbExpireAt, now), now)
       IN cbProc' = IF write = <<>>
                    THEN [cbProc EXCEPT !.begun[op] = @ + 1, !.done[op] = @ + 1]
                    ELSE [cbProc EXCEPT !.begun[op] = @ + 1, !.pc[p] = "write",
                                        !.op[p] = op, !.pending[p] = write]
    /\ UNCHANGED <<cbCfg, cbStored, cbExpireAt, cbLast, cbRun, cbOpenedAt, cbProbe,
                   clockVars, rlVars, rtVars, storeVars, hcVars, pxVars>>

\* its setStatus(): the full record replaces whatever is stored
CbWrite(p) ==
    /\ cbProc.pc[p] = "write"
    /\ setStatus(cbProc.pending[p], now)
    /\ cbProc' = [cbProc EXCEPT !.pc[p] = "idle", !.op[p] = "none",
                                !.pending[p] = <<>>,
                                !.done[cbProc.op[p]] = @ + 1]
    /\ UNCHANGED <<cbCfg, cbLast, cbRun, cbOpenedAt, cbProbe, clockVars, rlVars,
                   rtVars, storeVars, hcVars, pxVars>>

TickCBC ==
    \E d \in {1, TimeoutMs} :
        /\ nticks < MaxConcTicks
        /\ now' = now + d
        /\ nticks' = nticks + 1
        /\ UNCHANGED <<cbVars, rlVars, rtVars, storeVars, hcVars, pxVars>>

NextCBC ==
    \/ \E p \in 1..MaxCallers, op \in CbOps : CbRead(p, op)
    \/ \E p \in 1..MaxCallers : CbWrite(p)
    \/ TickCBC

\* an outage that ends: upstream responses of 5xx, and so recordFailure()
\* calls, come only during the first MaxConcTicks clock steps; from then on
\* every response is 2xx
OutageOver == nticks >= MaxConcTicks

FailingResponse ==
    /\ ~OutageOver
    /\ RecordFailureCall
    /\ UNCHANGED <<now, nticks, rlVars, rtVars, storeVars, hcVars, pxVars>>

\* the clock after the outage: it is followed for as long as an OPEN breaker
\* waits for its timeout
TickRecovery ==
    \E d \in CbTickSteps :
        /\ \/ ~OutageOver
           \/ LET status == getStatus(cbStored, cbExpireAt, now)
              IN /\ status.state = "OPEN"
                 /\ now - status.lastStateChange < cbCfg.timeout
        /\ now' = now + d
        /\ nticks' = Min(nticks + 1, MaxConcTicks)
        /\ UNCHANGED <<cbVars, rlVars, rtVars, storeVars, hcVars, pxVars>>

NextRecovery == CanExecute \/ RecordSuccess \/ FailingResponse \/ TickRecovery

----------------------------------------------------------------------------
(* Sliding-window rate limiter *)

DEFAULT_WINDOW_MS == 1000

\* limit = burstSize ?? requestsPerSecond
EffectiveLimit(cfg) ==
    IF cfg.burstSize # Null THEN cfg.burstSize ELSE cfg.requestsPerSecond

\* the members a command finds under the key: none once the key has expired
LiveSet(set, expireAt, t) == IF t >= expireAt THEN {} ELSE set

\* ZREMRANGEBYSCORE key lo hi: the members left
zremrangebyscore(set, lo, hi) == {m \in set : ~(lo <= m.score /\ m.score <= hi)}

\* ZRANGE key 0 0 WITHSCORES: the lowest score, t when the set is empty
OldestTimestamp(set, t) ==
    IF set = {} THEN t
    ELSE CHOOSE x \in {m.score : m \in set} : \A m \in set : x <= m.score

checkRateLimitOutcome_LateEviction(set, cfg, t, id) ==
    LET windowStart == t - DEFAULT_WINDOW_MS
        limit == EffectiveLimit(cfg)
        evicted == zremrangebyscore(set, 0, windowStart - 2)
        currentCount == Cardinality(evicted)
        added == evicted \cup {[score |-> t, id |-> id]}
        allowed == currentCount < limit
        oldestTimestamp == OldestTimestamp(added, t)
    IN [allowed |-> allowed,
        remaining |-> Max(0, limit - currentCount - 1),
        resetAt |-> oldestTimestamp + DEFAULT_WINDOW_MS,
        limit |-> limit,
        evicted |-> evicted,
        set |-> IF allowed THEN added ELSE zremrangebyscore(added, t, t + 1)]

\* checkRateLimit(key, config) called at instant t by the id-th call: the
\* RateLimitResult and the sorted set it leaves
checkRateLimitOutcome(set, cfg, t, id) ==
    LET windowStart == t - DEFAULT_WINDOW_MS
        limit == EffectiveLimit(cfg)
        evicted == zremrangebyscore(set, 0, windowStart)
        currentCount == Cardinality(evicted)
        added == evicted \cup {[score |-> t, id |-> id]}
        allowed == currentCount < limit
        oldestTimestamp == OldestTimestamp(added, t)
    IN [allowed |-> allowed,
        remaining |-> Max(0, limit - currentCount - 1),
        resetAt |-> oldestTimestamp + DEFAULT_WINDOW_MS,
        limit |-> limit,
        evicted |-> evicted,
        set |-> IF allowed THEN added ELSE zremrangebyscore(added, t, t + 1)]

\* EXPIRE key ceil(windowMs / 1000) + 1, in milliseconds
RlTtlMs == (CeilDiv(DEFAULT_WINDOW_MS, 1000) + 1) * 1000

RlConfigs == [requestsPerSecond : 1..MaxLimit, burstSize : {Null} \cup 1..MaxLimit]

RlTickSteps == {1, DEFAULT_WINDOW_MS - 1, DEFAULT_WINDOW_MS}

NoResult == [allowed |-> TRUE, remaining |-> 0, resetAt |-> 0, limit |-> 0,
             evicted |-> {}, set |-> {}, at |-> Null]

\* a key shared by all tenants
getTenantRateLimitKey_Shared(tenantId) == <<"tenant">>

\* getTenantRateLimitKey(tenantId): `tenant:${tenantId}`, as its parts
getTenantRateLimitKey(tenantId) == <<"tenant", tenantId>>

\* redisKey of checkRateLimit: `ratelimit:${key}`
RlRedisKey(key) == <<"ratelimit">> \o key

Tenants == {"A", "B"}

\* the shared cache as the members it holds, each under its key, and the
\* instant each key expires; alone is the first tenant's sorted set and expiry
\* in the run where no other tenant calls
NoTenantCalls ==
    [store |-> {}, expire |-> {}, alone |-> {}, aloneExpireAt |-> 0,
     last |-> NoResult, lastAlone |-> NoResult, n |-> 0]

\* the sorted set a command finds under the key at instant t
ZsetOf(store, expire, key, t) ==
    IF \E x \in expire : x.key = key /\ t < x.at
    THEN {[score |-> m.score, id |-> m.id] : m \in {x \in store : x.key = key}}
    ELSE {}

\* the cache after checkRateLimit left set under the key at instant t
StoreAfter(c, key, set, t) ==
    [c EXCEPT !.store = {x \in c.store : x.key # key}
                        \cup {[key |-> key, score |-> m.score, id |-> m.id] : m \in set},
              !.expire = {x \in c.expire : x.key # key}
                         \cup {[key |-> key, at |-> t + RlTtlMs]}]

\* the RateLimitResult of an outcome
ResultOf(out, t) ==
    [allowed |-> out.allowed, remaining |-> out.remaining, resetAt |-> out.resetAt,
     limit |-> out.limit, evicted |-> {}, set |-> {}, at |-> t]

\* the rateLimit hook for a request of the tenant: checkRateLimit under the
\* tenant's key. For the first tenant the same call is also made in the run
\* where it is the only tenant
TenantCheck(tenant) ==
    /\ iso.n < MaxCalls
    /\ LET key == RlRedisKey(getTenantRateLimitKey(tenant))
           out == checkRateLimitOutcome(ZsetOf(iso.store, iso.expire, key, now),
                                        rlCfg, now, iso.n + 1)
           solo == checkRateLimitOutcome(
                       LiveSet(iso.alone, iso.aloneExpireAt, now), rlCfg, now,
                       iso.n + 1)
           c == [StoreAfter(iso, key, out.set, now) EXCEPT !.n = @ + 1]
       IN iso' = IF tenant = "A"
                 THEN [c EXCEPT !.last = ResultOf(out, now),
                                !.alone = solo.set,
                                !.aloneExpireAt = now + RlTtlMs,
                                !.lastAlone = ResultOf(solo, now)]
                 ELSE c
    /\ UNCHANGED <<rlCfg, zset, rlExpireAt, rlCalls, rlAllowed, rlLast, rlProc,
                   clockVars, cbVars, rtVars, storeVars, hcVars, pxVars>>

CheckTenantA == TenantCheck("A") /\ iso'.n = iso.n + 1
CheckTenantB == TenantCheck("B") /\ iso'.n = iso.n + 1

TickTenants ==
    \E d \in RlTickSteps :
        /\ nticks < MaxConcTicks
        /\ now' = now + d
        /\ nticks' = nticks + 1
        /\ UNCHANGED <<rlVars, cbVars, rtVars, storeVars, hcVars, pxVars>>

NextTenants == CheckTenantA \/ CheckTenantB \/ TickTenants

\* the callers that may be inside checkRateLimit at once, and a caller that
\* is not
Callers == 1..MaxCallers
NoCall == [pc |-> "idle", t |-> Null, id |-> 0, allowed |-> TRUE, found |-> {},
           resetAt |-> Null]

InitRL(configs) ==
    /\ rlCfg \in configs
    /\ zset = {}
    /\ rlExpireAt = 0
    /\ rlCalls = 0
    /\ rlAllowed = {}
    /\ rlLast = NoResult
    /\ rlProc = [p \in Callers |-> NoCall]
    /\ iso = NoTenantCalls

CheckRateLimit ==
    /\ rlCalls < MaxCalls
    /\ LET out == checkRateLimitOutcome(LiveSet(zset, rlExpireAt, now), rlCfg,
                                        now, rlCalls + 1)
       IN /\ zset' = out.set
          /\ rlExpireAt' = now + RlTtlMs
          /\ rlCalls' = rlCalls + 1
          /\ rlAllowed' = IF out.allowed
                          THEN rlAllowed \cup {[ts |-> now, id |-> rlCalls + 1]}
                          ELSE rlAllowed
          /\ rlLast' = [allowed |-> out.allowed, remaining |-> out.remaining,
                        resetAt |-> out.resetAt, limit |-> out.limit,
                        evicted |-> out.evicted, set |-> out.set, at |-> now]
    /\ UNCHANGED <<now, nticks, rlCfg, rlProc, iso>>
    /\ UNCHANGED cbVars
    /\ UNCHANGED rtVars
    /\ UNCHANGED <<storeVars, hcVars, pxVars>>

TickRL ==
    \E d \in RlTickSteps :
        /\ nticks < MaxTicks
        /\ now' = now + d
        /\ nticks' = nticks + 1
        /\ UNCHANGED rlVars
        /\ UNCHANGED rtVars
        /\ UNCHANGED <<storeVars, hcVars, pxVars>>
        /\ UNCHANGED cbVars

NextRL == CheckRateLimit \/ TickRL

\* checkRateLimit run by several callers, one shared-cache round trip per step.
\* First round trip, the pipeline: ZREMRANGEBYSCORE, ZCARD, ZADD, EXPIRE
RlPipeline(p) ==
    /\ rlProc[p].pc = "idle"
    /\ rlCalls < MaxConcCalls
    /\ LET id == rlCalls + 1
           found == zremrangebyscore(LiveSet(zset, rlExpireAt, now), 0,
                                     now - DEFAULT_WINDOW_MS)
           allowed == Cardinality(found) < EffectiveLimit(rlCfg)
       IN /\ zset' = found \cup {[score |-> now, id |-> id]}
          /\ rlExpireAt' = now + RlTtlMs
          /\ rlCalls' = id
          /\ rlAllowed' = IF allowed THEN rlAllowed \cup {[ts |-> now, id |-> id]}
                          ELSE rlAllowed
          /\ rlProc' = [rlProc EXCEPT ![p] = [pc |-> "zrange", t |-> now, id |-> id,
                                               allowed |-> allowed, found |-> found,
                                               resetAt |-> Null]]
    /\ UNCHANGED <<now, nticks, rlCfg, rlLast, iso>>
    /\ UNCHANGED <<cbVars, rtVars, storeVars, hcVars, pxVars>>

\* second round trip: ZRANGE key 0 0 WITHSCORES for resetAt; an allowed call
\* returns after it
RlZrange(p) ==
    /\ rlProc[p].pc = "zrange"
    /\ LET c == rlProc[p]
           live == LiveSet(zset, rlExpireAt, now)
           limit == EffectiveLimit(rlCfg)
       IN IF c.allowed
          THEN /\ rlProc' = [rlProc EXCEPT ![p] = NoCall]
               /\ rlLast' = [allowed |-> TRUE,
                             remaining |-> Max(0, limit - Cardinality(c.found) - 1),
                             resetAt |-> OldestTimestamp(live, c.t) + DEFAULT_WINDOW_MS,
                             limit |-> limit, evicted |-> c.found, set |-> live,
                             at |-> c.t]
          ELSE /\ rlProc' = [rlProc EXCEPT
                                ![p].pc = "cleanup",
                                ![p].resetAt = OldestTimestamp(live, c.t)
                                               + DEFAULT_WINDOW_MS]
               /\ UNCHANGED rlLast
    /\ UNCHANGED <<now, nticks, rlCfg, zset, rlExpireAt, rlCalls, rlAllowed, iso>>
    /\ UNCHANGED <<cbVars, rtVars, storeVars, hcVars, pxVars>>

\* third round trip of a denied call: ZREMRANGEBYSCORE key now now+1, then the
\* call returns
RlCleanup(p) ==
    /\ rlProc[p].pc = "cleanup"
    /\ LET c == rlProc[p]
           live == LiveSet(zset, rlExpireAt, now)
           limit == EffectiveLimit(rlCfg)
       IN /\ zset' = zremrangebyscore(live, c.t, c.t + 1)
          /\ rlProc' = [rlProc EXCEPT ![p] = NoCall]
          /\ rlLast' = [allowed |-> FALSE,
                        remaining |-> Max(0, limit - Cardinality(c.found) - 1),
                        resetAt |-> c.resetAt, limit |-> limit,
                        evicted |-> c.found, set |-> zset', at |-> c.t]
    /\ UNCHANGED <<now, nticks, rlCfg, rlExpireAt, rlCalls, rlAllowed, iso>>
    /\ UNCHANGED <<cbVars, rtVars, storeVars, hcVars, pxVars>>

TickRLC ==
    \E d \in RlTickSteps :
        /\ nticks < MaxConcTicks
        /\ now' = now + d
        /\ nticks' = nticks + 1
        /\ UNCHANGED <<rlVars, cbVars, rtVars, storeVars, hcVars, pxVars>>

NextRLC ==
    \/ \E p \in Callers : RlPipeline(p) \/ RlZrange(p) \/ RlCleanup(p)
    \/ TickRLC

----------------------------------------------------------------------------
(* Retry wrapper *)

DEFAULT_RETRYABLE_STATUS_CODES == {500, 502, 503, 504}

\* errors fn may throw: name, the substrings the message is tested for, and
\* the statusCode property (Null when the error carries none)
Errors ==
    { [name |-> "AbortError", message |-> {}, statusCode |-> Null],
      [name |-> "TypeError", message |-> {"fetch"}, statusCode |-> Null],
      [name |-> "Error", message |-> {"ECONNREFUSED"}, statusCode |-> Null],
      [name |-> "Error", message |-> {}, statusCode |-> Null],
      [name |-> "Error", message |-> {}, statusCode |-> 503],
      [name |-> "Error", message |-> {}, statusCode |-> 400] }

\* what one invocation of fn does: resolve with a value or throw an error
Resolved(v) == [ok |-> TRUE, result |-> <<v>>, error |-> <<>>]
Thrown(e) == [ok |-> FALSE, result |-> <<>>, error |-> <<e>>]

FnOutcomes == {Resolved(200)} \cup {Thrown(e) : e \in Errors}

\* isRetryableStatusCode(statusCode, retryableCodes)
isRetryableStatusCode(statusCode, retryableCodes) ==
    LET codes == IF retryableCodes = <<>>
                 THEN DEFAULT_RETRYABLE_STATUS_CODES ELSE retryableCodes[1]
    IN statusCode \in codes

\* isRetryableError(error)
isRetryableError(error) ==
    \/ error.name = "TypeError" /\ "fetch" \in error.message
    \/ error.name = "AbortError"
    \/ error.message \cap {"ECONNREFUSED", "ECONNRESET", "ETIMEDOUT", "ENOTFOUND"} # {}

\* calculateDelay(attempt, baseDelayMs, maxDelayMs): the delays Math.random()
\* can produce, floor(capped + capped * r * 0.25) for r in [0, 1)
calculateDelay(attempt, baseDelayMs, maxDelayMs) ==
    LET cappedDelay == Min(baseDelayMs * (2 ^ attempt), maxDelayMs)
    IN cappedDelay .. (cappedDelay + CeilDiv(cappedDelay, 4) - 1)

\* catch block of withRetry: the new lastStatusCode and the shouldRetry flag
catchOutcome(attempt, lastStatusCode, error, cfg) ==
    LET newStatusCode == IF error.statusCode # Null
                         THEN error.statusCode ELSE lastStatusCode
    IN [lastStatusCode |-> newStatusCode,
        shouldRetry |->
            /\ attempt < cfg.maxRetries
            /\ \/ isRetryableError(error)
               \/ /\ newStatusCode # Null
                  /\ isRetryableStatusCode(newStatusCode, cfg.retryableStatusCodes)]

\* a failure that is neither classified retryable nor carries a statusCode in
\* retryableStatusCodes
NonRetryable(error, cfg) ==
    /\ ~isRetryableError(error)
    /\ ~(/\ error.statusCode # Null
         /\ isRetryableStatusCode(error.statusCode, cfg.retryableStatusCodes))

RetryConfigs ==
    [enabled : BOOLEAN, maxRetries : 0..MaxRetries, baseDelayMs : {BaseDelayMs},
     maxDelayMs : {MaxDelayMs}, retryableStatusCodes : {<<>>, <<{503}>>}]

\* entry of withRetry for config cfg
RetryEntry(cfg) ==
    /\ rtCfg' = cfg
    /\ rtPc' = "call"
    /\ rtAttempt' = 0
    /\ rtLastError' = <<>>
    /\ rtLastStatusCode' = Null
    /\ rtDelay' = 0
    /\ rtCalls' = 0
    /\ rtOnRetry' = 0
    /\ rtResult' = <<>>
    /\ rtStopped' = FALSE
    /\ rtLate' = FALSE

InitRetry(configs) ==
    /\ rtCfg \in configs
    /\ rtPc = "call"
    /\ rtAttempt = 0
    /\ rtLastError = <<>>
    /\ rtLastStatusCode = Null
    /\ rtDelay = 0
    /\ rtCalls = 0
    /\ rtOnRetry = 0
    /\ rtResult = <<>>
    /\ rtStopped = FALSE
    /\ rtLate = FALSE

\* withRetry reporting the zero-based attempt index of a success as `attempts`
RetryInvoke_ZeroBased(o) ==
    /\ rtPc = "call"
    /\ rtCalls' = rtCalls + 1
    /\ rtLate' = (rtLate \/ rtStopped)
    /\ IF ~rtCfg.enabled
       THEN /\ rtResult' = <<[success |-> o.ok, result |-> o.result,
                              attempts |-> 1,
                              error |-> o.error, lastStatusCode |-> Null]>>
            /\ rtPc' = "done"
            /\ UNCHANGED <<rtLastError, rtLastStatusCode, rtDelay, rtOnRetry,
                           rtStopped>>
       ELSE IF o.ok
       THEN /\ rtResult' = <<[success |-> TRUE, result |-> o.result,
                              attempts |-> rtAttempt,
                              error |-> <<>>,
                              lastStatusCode |-> rtLastStatusCode]>>
            /\ rtPc' = "done"
            /\ UNCHANGED <<rtLastError, rtLastStatusCode, rtDelay, rtOnRetry,
                           rtStopped>>
       ELSE LET c == catchOutcome(rtAttempt, rtLastStatusCode, o.error[1], rtCfg)
            IN /\ rtLastError' = o.error
               /\ rtLastStatusCode' = c.lastStatusCode
               /\ rtStopped' = (rtStopped \/ NonRetryable(o.error[1], rtCfg))
               /\ IF ~c.shouldRetry
                  THEN /\ rtResult' = <<[success |-> FALSE,
                                         result |-> <<>>,
                                         attempts |-> rtAttempt + 1,
                                         error |-> o.error,
                                         lastStatusCode |-> c.lastStatusCode]>>
                       /\ rtPc' = "done"
                       /\ UNCHANGED <<rtDelay, rtOnRetry>>
                  ELSE /\ rtDelay' \in calculateDelay(rtAttempt, rtCfg.baseDelayMs,
                                                      rtCfg.maxDelayMs)
                       /\ rtOnRetry' = rtOnRetry + 1
                       /\ rtPc' = "sleep"
                       /\ UNCHANGED rtResult
    /\ UNCHANGED <<rtCfg, rtAttempt>>

\* one invocation of fn that skips the loop only when there is nothing to retry
RetryInvoke_IgnoresEnabled(o) ==
    /\ rtPc = "call"
    /\ rtCalls' = rtCalls + 1
    /\ rtLate' = (rtLate \/ rtStopped)
    /\ IF ~rtCfg.enabled /\ rtCfg.maxRetries = 0
       THEN /\ rtResult' = <<[success |-> o.ok, result |-> o.result,
                              attempts |-> 1,
                              error |-> o.error, lastStatusCode |-> Null]>>
            /\ rtPc' = "done"
            /\ UNCHANGED <<rtLastError, rtLastStatusCode, rtDelay, rtOnRetry,
                           rtStopped>>
       ELSE IF o.ok
       THEN /\ rtResult' = <<[success |-> TRUE, result |-> o.result,
                              attempts |-> rtAttempt + 1,
                              error |-> <<>>,
                              lastStatusCode |-> rtLastStatusCode]>>
            /\ rtPc' = "done"
            /\ UNCHANGED <<rtLastError, rtLastStatusCode, rtDelay, rtOnRetry,
                           rtStopped>>
       ELSE LET c == catchOutcome(rtAttempt, rtLastStatusCode, o.error[1], rtCfg)
            IN /\ rtLastError' = o.error
               /\ rtLastStatusCode' = c.lastStatusCode
               /\ rtStopped' = (rtStopped \/ NonRetryable(o.error[1], rtCfg))
               /\ IF ~c.shouldRetry
                  THEN /\ rtResult' = <<[success |-> FALSE,
                                         result |-> <<>>,
                                         attempts |-> rtAttempt + 1,
                                         error |-> o.error,
                                         lastStatusCode |-> c.lastStatusCode]>>
                       /\ rtPc' = "done"
                       /\ UNCHANGED <<rtDelay, rtOnRetry>>
                  ELSE /\ rtDelay' \in calculateDelay(rtAttempt, rtCfg.baseDelayMs,
                                                      rtCfg.maxDelayMs)
                       /\ rtOnRetry' = rtOnRetry + 1
                       /\ rtPc' = "sleep"
                       /\ UNCHANGED rtResult
    /\ UNCHANGED <<rtCfg, rtAttempt>>

\* one invocation of fn with outcome o, up to the return or the sleep
RetryInvoke(o) ==
    /\ rtPc = "call"
    /\ rtCalls' = rtCalls + 1
    /\ rtLate' = (rtLate \/ rtStopped)
    /\ IF ~rtCfg.enabled
       THEN /\ rtResult' = <<[success |-> o.ok, result |-> o.result,
                              attempts |-> 1,
                              error |-> o.error, lastStatusCode |-> Null]>>
            /\ rtPc' = "done"
            /\ UNCHANGED <<rtLastError, rtLastStatusCode, rtDelay, rtOnRetry,
                           rtStopped>>
       ELSE IF o.ok
       THEN /\ rtResult' = <<[success |-> TRUE, result |-> o.result,
                              attempts |-> rtAttempt + 1,
                              error |-> <<>>,
                              lastStatusCode |-> rtLastStatusCode]>>
            /\ rtPc' = "done"
            /\ UNCHANGED <<rtLastError, rtLastStatusCode, rtDelay, rtOnRetry,
                           rtStopped>>
       ELSE LET c == catchOutcome(rtAttempt, rtLastStatusCode, o.error[1], rtCfg)
            IN /\ rtLastError' = o.error
               /\ rtLastStatusCode' = c.lastStatusCode
               /\ rtStopped' = (rtStopped \/ NonRetryable(o.error[1], rtCfg))
               /\ IF ~c.shouldRetry
                  THEN /\ rtResult' = <<[success |-> FALSE,
                                         result |-> <<>>,
                                         attempts |-> rtAttempt + 1,
                                         error |-> o.error,
                                         lastStatusCode |-> c.lastStatusCode]>>
                       /\ rtPc' = "done"
                       /\ UNCHANGED <<rtDelay, rtOnRetry>>
                  ELSE /\ rtDelay' \in calculateDelay(rtAttempt, rtCfg.baseDelayMs,
                                                      rtCfg.maxDelayMs)
                       /\ rtOnRetry' = rtOnRetry + 1
                       /\ rtPc' = "sleep"
                       /\ UNCHANGED rtResult
    /\ UNCHANGED <<rtCfg, rtAttempt>>

\* await sleep(delay), attempt++ and the loop test
RetrySleep ==
    /\ rtPc = "sleep"
    /\ now' = now + rtDelay
    /\ rtAttempt' = rtAttempt + 1
    /\ IF rtAttempt + 1 <= rtCfg.maxRetries
       THEN /\ rtPc' = "call"
            /\ UNCHANGED rtResult
       ELSE /\ rtPc' = "done"
            /\ rtResult' = <<[success |-> FALSE, result |-> <<>>,
                              attempts |-> rtCfg.maxRetries + 1,
                              error |-> rtLastError,
                              lastStatusCode |-> rtLastStatusCode]>>
    /\ UNCHANGED <<rtCfg, rtLastError, rtLastStatusCode, rtDelay, rtCalls,
                   rtOnRetry, rtStopped, rtLate>>

WithRetryCall ==
    /\ \E o \in FnOutcomes : RetryInvoke(o)
    /\ UNCHANGED <<now, nticks>>
    /\ UNCHANGED cbVars
    /\ UNCHANGED rlVars
    /\ UNCHANGED <<storeVars, hcVars, pxVars>>

WithRetrySleep ==
    /\ RetrySleep
    /\ UNCHANGED nticks
    /\ UNCHANGED cbVars
    /\ UNCHANGED rlVars
    /\ UNCHANGED <<storeVars, hcVars, pxVars>>

NextRetry == WithRetryCall \/ WithRetrySleep

----------------------------------------------------------------------------

----------------------------------------------------------------------------
(* Tenant authentication *)

TENANT_CACHE_TTL_SECONDS == 5

\* X-API-Key values: no header, the key of the tenant, a key of no tenant
NoHeader == "none"
TenantKey == "k1"
UnknownKey == "bad"
ApiKeys == {NoHeader, TenantKey, UnknownKey}

\* mapToTenant(row): the tenant view
TenantView(active) == [id |-> "t1", isActive |-> active]

\* findActiveTenants(): rows with isActive = true
findActiveTenants(active) == IF active THEN {TenantView(TRUE)} ELSE {}

\* validateApiKey(apiKey): the tenant returned (<<>> for null) and whether
\* the cache entry is written
validateApiKey(apiKey, cache, expireAt, active, t) ==
    IF apiKey = TenantKey /\ cache # <<>> /\ t < expireAt
    THEN [tenant |-> IF ~cache[1].isActive THEN <<>> ELSE cache,
          write |-> FALSE]
    ELSE IF apiKey = TenantKey /\ findActiveTenants(active) # {}
    THEN [tenant |-> <<TenantView(TRUE)>>, write |-> TRUE]
    ELSE [tenant |-> <<>>, write |-> FALSE]

validateApiKeyCall_NoCache(apiKey, cache, expireAt, active, t, getOk, setOk) ==
    LET rows == findActiveTenants(active)
        v == validateApiKey(apiKey, <<>>, expireAt, active, t)
    IN IF ~getOk
       THEN [threw |-> TRUE, fault |-> "get", tenant |-> <<>>, write |-> FALSE,
             storeReads |-> 0, compares |-> 0]
       ELSE [threw |-> v.write /\ ~setOk,
             fault |-> IF v.write /\ ~setOk THEN "setex" ELSE "none",
             tenant |-> v.tenant, write |-> v.write /\ setOk, storeReads |-> 1,
             compares |-> Cardinality(rows)]

\* validateApiKey(apiKey) as a call: getOk / setOk are whether redis.get and
\* redis.setex answer (a failing one rejects, and nothing catches it), and the
\* calls counted are findActiveTenants() and bcrypt compare(), one per row
\* until the match
validateApiKeyCall(apiKey, cache, expireAt, active, t, getOk, setOk) ==
    LET hit == apiKey = TenantKey /\ cache # <<>> /\ t < expireAt
        rows == findActiveTenants(active)
        v == validateApiKey(apiKey, cache, expireAt, active, t)
    IN IF ~getOk
       THEN [threw |-> TRUE, fault |-> "get", tenant |-> <<>>, write |-> FALSE,
             storeReads |-> 0, compares |-> 0]
       ELSE IF hit
       THEN [threw |-> FALSE, fault |-> "none", tenant |-> v.tenant,
             write |-> FALSE, storeReads |-> 0, compares |-> 0]
       ELSE [threw |-> v.write /\ ~setOk,
             fault |-> IF v.write /\ ~setOk THEN "setex" ELSE "none",
             tenant |-> v.tenant, write |-> v.write /\ setOk, storeReads |-> 1,
             compares |-> Cardinality(rows)]

\* no validateApiKey call made yet; okAt / wroteAt are the instants of the last
\* call that returned a tenant and of the last one that wrote the cache entry
NoValidation ==
    [n |-> 0, at |-> Null, key |-> NoHeader,
     out |-> [threw |-> FALSE, fault |-> "none", tenant |-> <<>>, write |-> FALSE,
              storeReads |-> 0, compares |-> 0],
     activeAt |-> FALSE, prev |-> [okAt |-> Null, okTenant |-> <<>>, wroteAt |-> Null,
                                   wrote |-> <<>>],
     okAt |-> Null, okTenant |-> <<>>, wroteAt |-> Null, wrote |-> <<>>]

\* validateApiKey calls in flight: where each caller is in its call and the
\* rows its findActiveTenants() returned; deactivatedAt is the instant of
\* deactivateTenant, last the validateApiKey call that returned last
NoValidations ==
    [pc |-> [p \in Callers |-> "idle"], rows |-> [p \in Callers |-> {}],
     n |-> 0, deactivatedAt |-> Null, last |-> [tenant |-> <<>>, at |-> Null]]

\* tenantAuth hook: status of the reply it sends (0 when it sends none) and
\* the value of request.tenant
tenantAuth(apiKey, validated) ==
    IF apiKey = NoHeader THEN [status |-> 401, tenant |-> <<>>]
    ELSE IF validated = <<>> THEN [status |-> 401, tenant |-> <<>>]
    ELSE IF ~validated[1].isActive THEN [status |-> 403, tenant |-> <<>>]
    ELSE [status |-> 0, tenant |-> validated]

\* createTenant stores the tenant active; nothing is cached yet
InitStore ==
    /\ tenantActive = TRUE
    /\ tcache = <<>>
    /\ tcExpireAt = 0
    /\ vaLog = NoValidation
    /\ vaProc = NoValidations

----------------------------------------------------------------------------
(* Health status *)

MIN_INTERVAL_MS == 5000

\* getDefaultStatus() of the health checker
hcDefaultStatus ==
    [healthy |-> TRUE, consecutiveSuccesses |-> 0, consecutiveFailures |-> 0,
     lastCheckTime |-> Null, lastSuccessTime |-> Null, lastFailureTime |-> Null]

\* constructor of HealthChecker: the interval is at least MIN_INTERVAL_MS
HealthCheckerConfig(config) ==
    [config EXCEPT !.intervalMs = Max(config.intervalMs, MIN_INTERVAL_MS)]

\* HealthChecker.getTtl(), in milliseconds
hcTtlMs(cfg) == CeilDiv(cfg.intervalMs * 3, 1000) * 1000

\* HealthChecker.getStatus()
hcGetStatus(stored, expireAt, t) ==
    IF stored = <<>> \/ t >= expireAt THEN hcDefaultStatus ELSE stored[1]

\* HealthChecker.recordSuccess(currentStatus, timestamp)
hcRecordSuccess(status, t, cfg) ==
    [healthy |-> \/ status.healthy
                 \/ status.consecutiveSuccesses + 1 >= cfg.healthyThreshold,
     consecutiveSuccesses |-> status.consecutiveSuccesses + 1,
     consecutiveFailures |-> 0,
     lastCheckTime |-> t, lastSuccessTime |-> t,
     lastFailureTime |-> status.lastFailureTime]

hcRecordFailure_Late(status, t, cfg) ==
    [healthy |-> /\ status.healthy
                 /\ ~(status.consecutiveFailures + 1 > cfg.unhealthyThreshold),
     consecutiveSuccesses |-> 0,
     consecutiveFailures |-> status.consecutiveFailures + 1,
     lastCheckTime |-> t, lastSuccessTime |-> status.lastSuccessTime,
     lastFailureTime |-> t]

\* HealthChecker.recordFailure(currentStatus, timestamp)
hcRecordFailure(status, t, cfg) ==
    [healthy |-> /\ status.healthy
                 /\ ~(status.consecutiveFailures + 1 >= cfg.unhealthyThreshold),
     consecutiveSuccesses |-> 0,
     consecutiveFailures |-> status.consecutiveFailures + 1,
     lastCheckTime |-> t, lastSuccessTime |-> status.lastSuccessTime,
     lastFailureTime |-> t]

\* HealthCheckManager.isUpstreamHealthy(): true when no checker is registered
isUpstreamHealthy(registered, stored, expireAt, t) ==
    IF ~registered THEN TRUE ELSE hcGetStatus(stored, expireAt, t).healthy

\* healthCheck configs of the route: intervalMs, healthyThreshold,
\* unhealthyThreshold
HcConfigs ==
    {[intervalMs |-> 1000, healthyThreshold |-> 1, unhealthyThreshold |-> 1]}

NoProbe == [ok |-> TRUE, before |-> hcDefaultStatus, after |-> hcDefaultStatus]

\* one HealthChecker object: intervalId is set, the check() calls that have not
\* returned yet (each with the Date.now() it read, its position and the status
\* it read), the check() calls begun so far, and whether stop() has returned;
\* runs counts the probes completed since the last one with the other result
NoChecker ==
    [intervalId |-> FALSE, flights |-> {}, begun |-> 0, stopped |-> FALSE,
     runs |-> [ok |-> 0, failed |-> 0]]

\* HealthCheckManager. checkers is its Map as a set of entries (key, id of the
\* HealthChecker object); objs are the HealthChecker objects constructed so
\* far, each with its key, config.enabled and intervalId; timers are the
\* interval timers not yet cleared; last is the last call, the checker it found
\* under the key, the one it returned and the objects made before it.
\* A key stands for a triple (tenantId, routeId, upstream.url)
HmKeys == 1..MaxTriples

NoManagerCall == [op |-> "none", key |-> 0, existing |-> 0, ret |-> 0, made |-> 0]

NoCheckers ==
    [checkers |-> {}, objs |-> <<>>, timers |-> {}, nextTimer |-> 1,
     last |-> NoManagerCall]

\* Map.get(key): the id of the checker under the key, 0 for undefined
MapGet(m, key) ==
    IF \E x \in m : x.key = key THEN (CHOOSE x \in m : x.key = key).id ELSE 0

\* Map.set(key, id)
MapSet(m, key, id) == {x \in m : x.key # key} \cup {[key |-> key, id |-> id]}

\* HealthChecker.start() of object c (the initial check is a probe)
checkerStart(h, c) ==
    IF h.objs[c].intervalId # Null \/ ~h.objs[c].enabled THEN h
    ELSE [h EXCEPT !.objs[c].intervalId = h.nextTimer,
                   !.timers = @ \cup {[owner |-> c, tid |-> h.nextTimer]},
                   !.nextTimer = @ + 1]

\* HealthChecker.stop() of object c
checkerStop(h, c) ==
    IF h.objs[c].intervalId # Null
    THEN [h EXCEPT !.timers = {t \in @ : t.tid # h.objs[c].intervalId},
                   !.objs[c].intervalId = Null]
    ELSE h

\* for (const checker of this.checkers.values()) checker.start() / .stop()
RECURSIVE StartEach(_, _)
StartEach(h, ids) ==
    IF ids = {} THEN h
    ELSE LET c == CHOOSE x \in ids : \A y \in ids : x <= y
         IN StartEach(checkerStart(h, c), ids \ {c})

RECURSIVE StopEach(_, _)
StopEach(h, ids) ==
    IF ids = {} THEN h
    ELSE LET c == CHOOSE x \in ids : \A y \in ids : x <= y
         IN StopEach(checkerStop(h, c), ids \ {c})

startAll(h) == StartEach(h, {x.id : x \in h.checkers})
stopAll(h) == StopEach(h, {x.id : x \in h.checkers})

registerUpstream_NoDedup(h, key, enabled) ==
    LET id == Len(h.objs) + 1
    IN [h EXCEPT !.objs = Append(@, [key |-> key, enabled |-> enabled,
                                     intervalId |-> Null]),
                 !.checkers = MapSet(@, key, id),
                 !.last = [op |-> "registerUpstream", key |-> key,
                           existing |-> MapGet(h.checkers, key), ret |-> id,
                           made |-> Len(h.objs)]]

\* HealthCheckManager.registerUpstream(tenantId, routeId, upstream, config)
registerUpstream(h, key, enabled) ==
    LET existing == MapGet(h.checkers, key)
        id == Len(h.objs) + 1
    IN IF existing # 0
       THEN [h EXCEPT !.last = [op |-> "registerUpstream", key |-> key,
                                existing |-> existing, ret |-> existing,
                                made |-> Len(h.objs)]]
       ELSE [h EXCEPT !.objs = Append(@, [key |-> key, enabled |-> enabled,
                                          intervalId |-> Null]),
                      !.checkers = MapSet(@, key, id),
                      !.last = [op |-> "registerUpstream", key |-> key,
                                existing |-> 0, ret |-> id,
                                made |-> Len(h.objs)]]

\* HealthCheckManager.unregisterUpstream(tenantId, routeId, upstreamUrl)
unregisterUpstream(h, key) ==
    LET c == MapGet(h.checkers, key)
    IN IF c # 0
       THEN [checkerStop(h, c) EXCEPT !.checkers = {x \in @ : x.key # key}]
       ELSE h

\* HealthCheckManager.clear()
clear(h) == [stopAll(h) EXCEPT !.checkers = {}]

\* the manager after a call: the call is recorded as the last one
HmAfter(op, h) ==
    IF op = "registerUpstream" THEN h
    ELSE [h EXCEPT !.last = [NoManagerCall EXCEPT !.op = op]]

\* the objects and timers made stay within the bounds
HmFits(h) == Len(h.objs) <= MaxCheckers /\ h.nextTimer <= MaxTimers + 1

RegisterUpstream ==
    /\ \E key \in HmKeys, enabled \in BOOLEAN :
           LET h == registerUpstream(hm, key, enabled)
           IN HmFits(h) /\ hm' = HmAfter("registerUpstream", h)
    /\ UNCHANGED <<hcCfg, hcRegistered, hcStored, hcExpireAt, hcProbes, hcLast,
                   hcRun>>
    /\ UNCHANGED <<clockVars, storeVars, pxVars, cbVars, rlVars, rtVars>>

UnregisterUpstream ==
    /\ \E key \in HmKeys :
           hm' = HmAfter("unregisterUpstream", unregisterUpstream(hm, key))
    /\ UNCHANGED <<hcCfg, hcRegistered, hcStored, hcExpireAt, hcProbes, hcLast,
                   hcRun>>
    /\ UNCHANGED <<clockVars, storeVars, pxVars, cbVars, rlVars, rtVars>>

\* start() on a checker somebody holds a reference to
CheckerStart ==
    /\ \E c \in 1..Len(hm.objs) :
           LET h == checkerStart(hm, c)
           IN HmFits(h) /\ hm' = HmAfter("start", h)
    /\ UNCHANGED <<hcCfg, hcRegistered, hcStored, hcExpireAt, hcProbes, hcLast,
                   hcRun>>
    /\ UNCHANGED <<clockVars, storeVars, pxVars, cbVars, rlVars, rtVars>>

StartAll ==
    /\ HmFits(startAll(hm))
    /\ hm' = HmAfter("startAll", startAll(hm))
    /\ UNCHANGED <<hcCfg, hcRegistered, hcStored, hcExpireAt, hcProbes, hcLast,
                   hcRun>>
    /\ UNCHANGED <<clockVars, storeVars, pxVars, cbVars, rlVars, rtVars>>

StopAll ==
    /\ hm' = HmAfter("stopAll", stopAll(hm))
    /\ UNCHANGED <<hcCfg, hcRegistered, hcStored, hcExpireAt, hcProbes, hcLast,
                   hcRun>>
    /\ UNCHANGED <<clockVars, storeVars, pxVars, cbVars, rlVars, rtVars>>

Clear ==
    /\ hm' = HmAfter("clear", clear(hm))
    /\ UNCHANGED <<hcCfg, hcRegistered, hcStored, hcExpireAt, hcProbes, hcLast,
                   hcRun>>
    /\ UNCHANGED <<clockVars, storeVars, pxVars, cbVars, rlVars, rtVars>>

NextManager ==
    \/ RegisterUpstream \/ UnregisterUpstream \/ CheckerStart
    \/ StartAll \/ StopAll \/ Clear

\* registerRouteHealthChecks registers a checker only for a route with
\* healthCheck.enabled
InitHealth ==
    /\ hcCfg \in {HealthCheckerConfig(c) : c \in HcConfigs}
    /\ hcRegistered \in {FALSE, route.healthCheck}
    /\ hcStored = <<>>
    /\ hcExpireAt = 0
    /\ hcProbes = 0
    /\ hcLast = NoProbe
    /\ hm = NoCheckers
    /\ hcRun = NoChecker

\* HealthChecker.check() with the probe's result ok: the status is read, the
\* result recorded and the new status stored with the TTL
HealthCheckCall(ok) ==
    LET status == hcGetStatus(hcStored, hcExpireAt, now)
        new == IF ok THEN hcRecordSuccess(status, now, hcCfg)
               ELSE hcRecordFailure(status, now, hcCfg)
    IN /\ hcStored' = <<new>>
       /\ hcExpireAt' = now + hcTtlMs(hcCfg)

----------------------------------------------------------------------------
(* Routing: load balancer and route matching *)

Strategies == {"round-robin", "weighted", "random"}

\* ids of the routes of the tenant, in the order the store returns them
RouteIds == 1..MaxRoutes

\* Map.get(routeId) ?? 0 on roundRobinCounters
CounterOf(counters, id) == IF counters[id] = Null THEN 0 ELSE counters[id]

\* selectRoundRobin whose cursor is shared by all routes
selectRoundRobin_SharedCursor(n, counters, routeId) ==
    LET currentIndex == CounterOf(counters, 1)
    IN [index |-> (currentIndex % n) + 1,
        counters |-> [counters EXCEPT ![1] = currentIndex + 1]]

\* selectRoundRobin(upstreams, routeId): the upstream chosen (its position in
\* the list, from 1) and the counters after the call; n is upstreams.length
selectRoundRobin(n, counters, routeId) ==
    LET currentIndex == CounterOf(counters, routeId)
    IN [index |-> (currentIndex % n) + 1,
        counters |-> [counters EXCEPT ![routeId] = currentIndex + 1]]

\* selectUpstream(upstreams, strategy, routeId): what a call can return; the
\* weighted and random strategies draw from Math.random()
selectUpstream(n, strategy, counters, routeId) ==
    IF n = 1 THEN {[index |-> 1, counters |-> counters]}
    ELSE IF strategy = "round-robin"
    THEN {selectRoundRobin(n, counters, routeId)}
    ELSE IF strategy \in {"weighted", "random"}
    THEN {[index |-> i, counters |-> counters] : i \in 1..n}
    ELSE {[index |-> 1, counters |-> counters]}

\* request and route paths, as the characters of the string
PathA == <<"/", "a">>
PathAB == <<"/", "a", "/", "b">>
PathAx == <<"/", "a", "x">>
PathASlash == <<"/", "a", "/">>
ReAnyUnderA == <<"/", "a", ".", "*">>
ReInvalid == <<"(">>

\* String.prototype.startsWith
StartsWith(str, prefix) ==
    /\ Len(prefix) <= Len(str)
    /\ SubSeq(str, 1, Len(prefix)) = prefix

\* new RegExp(`^${routePath}$`).test(requestPath) for the patterns above:
\* "/a.*" accepts what starts with "/a", "(" does not compile and throws
RegExpTest(routePath, requestPath) ==
    IF routePath = ReAnyUnderA
    THEN [threw |-> FALSE, ret |-> StartsWith(requestPath, PathA)]
    ELSE [threw |-> TRUE, ret |-> FALSE]

\* matchPath(routePath, requestPath, pathType)
matchPath(routePath, requestPath, pathType) ==
    IF pathType = "exact" THEN routePath = requestPath
    ELSE IF pathType = "prefix"
    THEN \/ requestPath = routePath
         \/ StartsWith(requestPath, routePath \o <<"/">>)
    ELSE IF pathType = "regex"
    THEN LET t == RegExpTest(routePath, requestPath)
         IN IF t.threw THEN FALSE ELSE t.ret
    ELSE FALSE

\* the loop of matchRoute from route i on: the position of the first route
\* that passes the method check and the path check, 0 when the loop ends
RECURSIVE FirstMatch(_, _, _, _)
FirstMatch(routes, method, path, i) ==
    IF i > Len(routes) THEN 0
    ELSE IF routes[i].method # "*" /\ routes[i].method # method
    THEN FirstMatch(routes, method, path, i + 1)
    ELSE IF ~matchPath(routes[i].path, path, routes[i].pathType)
    THEN FirstMatch(routes, method, path, i + 1)
    ELSE i

\* matchRoute that prefers an exact route to the routes before it
matchRoute_ExactFirst(routes, counters, method, path) ==
    LET hits == {j \in 1..Len(routes) :
                    /\ routes[j].method = "*" \/ routes[j].method = method
                    /\ matchPath(routes[j].path, path, routes[j].pathType)}
        exact == {j \in hits : routes[j].pathType = "exact"}
        i == IF hits = {} THEN 0
             ELSE IF exact # {} THEN CHOOSE j \in exact : \A k \in exact : j <= k
             ELSE CHOOSE j \in hits : \A k \in hits : j <= k
    IN IF i = 0 THEN {[route |-> 0, upstream |-> 0, counters |-> counters]}
       ELSE {[route |-> i, upstream |-> u.index, counters |-> u.counters] :
                u \in selectUpstream(routes[i].n, routes[i].loadBalancing,
                                     counters, routes[i].id)}

\* matchRoute(tenantId, method, path) on the active routes of the tenant: what
\* a call can return (route 0 for null) and the counters after it
matchRoute(routes, counters, method, path) ==
    LET i == FirstMatch(routes, method, path, 1)
    IN IF i = 0 THEN {[route |-> 0, upstream |-> 0, counters |-> counters]}
       ELSE {[route |-> i, upstream |-> u.index, counters |-> u.counters] :
                u \in selectUpstream(routes[i].n, routes[i].loadBalancing,
                                     counters, routes[i].id)}

NoMatchCall == [method |-> "none", path |-> <<>>, route |-> 0, upstream |-> 0]

\* no route stored, no counter set, no call made
NoRouting ==
    [routes |-> <<>>, counters |-> [id \in RouteIds |-> Null],
     picks |-> [id \in RouteIds |-> <<>>], last |-> NoMatchCall, calls |-> 0]

\* one selectUpstream call for a stored route
SelectUpstream ==
    /\ rs.calls < MaxSelections
    /\ \E i \in 1..Len(rs.routes) :
         \E u \in selectUpstream(rs.routes[i].n, rs.routes[i].loadBalancing,
                                 rs.counters, rs.routes[i].id) :
            rs' = [rs EXCEPT !.counters = u.counters,
                             !.picks[rs.routes[i].id] = Append(@, u.index),
                             !.calls = @ + 1]
    /\ UNCHANGED <<route, pxEnv, req, pxTrace, pxUpCalls, pxReply, pxSnap, pxRec,
                   clockVars, storeVars, hcVars, cbVars, rlVars, rtVars>>

Methods == {"GET", "POST"}
RequestPaths == {PathA, PathAB, PathAx}

\* one matchRoute call
MatchRoute ==
    /\ rs.calls < MaxMatches
    /\ \E method \in Methods, path \in RequestPaths :
         \E m \in matchRoute(rs.routes, rs.counters, method, path) :
            rs' = [rs EXCEPT !.counters = m.counters,
                             !.last = [method |-> method, path |-> path,
                                       route |-> m.route, upstream |-> m.upstream],
                             !.calls = @ + 1]
    /\ UNCHANGED <<route, pxEnv, req, pxTrace, pxUpCalls, pxReply, pxSnap, pxRec,
                   clockVars, storeVars, hcVars, cbVars, rlVars, rtVars>>

----------------------------------------------------------------------------
(* Proxy pipeline *)

Stages == <<"auth", "rateLimit", "match", "health", "breaker", "upstream">>

\* resilience.healthCheck.enabled and resilience.fallback.enabled of the route;
\* resilience.circuitBreaker is cbCfg and resilience.retry is rtCfg
Routes == [healthCheck : BOOLEAN, fallback : BOOLEAN]

NoReply == [status |-> 0, kind |-> "none", rateLimitHeaders |-> FALSE,
            retryAfter |-> Null]

NoRequest == [pc |-> "idle", apiKey |-> NoHeader, matches |-> FALSE,
              tenant |-> <<>>, activeAtAuth |-> FALSE, rejectedBy |-> "none",
              up |-> <<>>, outs |-> <<>>, caught |-> "none", faults |-> {},
              hits |-> 0, n |-> 0]

InitProxy(routes, env) ==
    /\ route \in routes
    /\ rs = NoRouting
    /\ pxEnv = env
    /\ req = NoRequest
    /\ pxTrace = <<>>
    /\ pxUpCalls = 0
    /\ pxReply = NoReply
    /\ pxSnap = <<cbStored, cbExpireAt>>
    /\ pxRec = <<>>

\* reply.status(code).send({error, message}) of the gateway itself
ErrorReply(code) == [pxReply EXCEPT !.status = code, !.kind = "error"]

\* the reply of the framework's default error handler when a hook or the
\* handler throws
UnhandledReply == [pxReply EXCEPT !.status = 500, !.kind = "unhandled"]

\* sendFallbackResponse(reply, config): the configured static response
FallbackStatus == 503
sendFallbackResponse == [pxReply EXCEPT !.status = FallbackStatus, !.kind = "fallback"]

\* shouldUseFallback(config)
shouldUseFallback(r) == r.fallback

\* fallback if configured, else the gateway error `code`
FallbackOr(code) ==
    IF shouldUseFallback(route) THEN sendFallbackResponse ELSE ErrorReply(code)

\* a lifecycle that goes on after a reply has been sent
HookRuns_Always(reply) == TRUE

\* a preHandler hook or the handler runs only while no reply has been sent
HookRuns(reply) == reply.status = 0

\* a request arrives with its X-API-Key header
Arrive ==
    /\ req.pc = "idle"
    /\ req.n < MaxRequests
    /\ \E k \in ApiKeys :
           req' = [NoRequest EXCEPT !.pc = "auth", !.apiKey = k, !.n = req.n + 1]
    /\ pxTrace' = <<>>
    /\ pxUpCalls' = 0
    /\ pxReply' = NoReply
    /\ pxSnap' = <<cbStored, cbExpireAt>>
    /\ pxRec' = <<>>
    /\ UNCHANGED <<route, rs, pxEnv, clockVars, storeVars, hcVars, cbVars, rlVars, rtVars>>

\* preHandler[0]: app.tenantAuth
Auth ==
    /\ req.pc = "auth"
    /\ LET v == validateApiKey(req.apiKey, tcache, tcExpireAt, tenantActive, now)
           validated == IF req.apiKey = NoHeader THEN <<>> ELSE v.tenant
           a == tenantAuth(req.apiKey, validated)
       IN /\ IF req.apiKey # NoHeader /\ v.write
             THEN /\ tcache' = v.tenant
                  /\ tcExpireAt' = now + TENANT_CACHE_TTL_SECONDS * 1000
             ELSE UNCHANGED <<tcache, tcExpireAt>>
          /\ pxReply' = IF a.status = 0 THEN pxReply ELSE ErrorReply(a.status)
          /\ req' = [req EXCEPT !.tenant = a.tenant,
                                !.activeAtAuth = tenantActive,
                                !.rejectedBy = IF a.status = 0 THEN "none" ELSE "auth",
                                !.pc = "rateLimit"]
    /\ pxTrace' = Append(pxTrace, "auth")
    /\ UNCHANGED <<route, rs, pxEnv, pxUpCalls, pxSnap, pxRec, tenantActive, vaLog, vaProc,
                   clockVars, hcVars,
                   cbVars, rlVars, rtVars>>

\* milliseconds that may pass between the Date.now() of checkRateLimit and the
\* Date.now() the hook reads for Retry-After
RlReplyDelays == {0, 1}

\* preHandler[1]: app.rateLimit; on denial rate_limit_hits_total is incremented
\* (req.hits) and Retry-After is computed from a second reading of the clock
RateLimit ==
    /\ req.pc = "rateLimit"
    /\ IF HookRuns(pxReply) /\ req.tenant # <<>>
       THEN /\ rlCalls < MaxCalls
            /\ LET out == checkRateLimitOutcome(LiveSet(zset, rlExpireAt, now),
                                                rlCfg, now, rlCalls + 1)
               IN /\ zset' = out.set
                  /\ rlExpireAt' = now + RlTtlMs
                  /\ rlCalls' = rlCalls + 1
                  /\ rlAllowed' = IF out.allowed
                                  THEN rlAllowed \cup {[ts |-> now, id |-> rlCalls + 1]}
                                  ELSE rlAllowed
                  /\ rlLast' = [allowed |-> out.allowed, remaining |-> out.remaining,
                                resetAt |-> out.resetAt, limit |-> out.limit,
                                evicted |-> out.evicted, set |-> out.set, at |-> now]
                  /\ IF out.allowed
                     THEN /\ pxReply' = [pxReply EXCEPT !.rateLimitHeaders = TRUE]
                          /\ req' = [req EXCEPT !.pc = "handler"]
                          /\ UNCHANGED now
                     ELSE \E d \in pxEnv.delays :
                            /\ now' = now + d
                            /\ pxReply' = [status |-> 429, kind |-> "error",
                                           rateLimitHeaders |-> TRUE,
                                           retryAfter |->
                                               CeilDiv(out.resetAt - now', 1000)]
                            /\ req' = [req EXCEPT !.pc = "handler",
                                                  !.rejectedBy = "rateLimit",
                                                  !.hits = @ + 1]
            /\ pxTrace' = Append(pxTrace, "rateLimit")
            /\ UNCHANGED <<rlCfg, rlProc, iso>>
       ELSE /\ req' = [req EXCEPT !.pc = "handler"]
            /\ UNCHANGED <<pxTrace, pxReply, rlVars, now>>
    /\ UNCHANGED <<route, rs, pxEnv, pxUpCalls, pxSnap, pxRec, nticks, storeVars, hcVars,
                   cbVars, rtVars>>

\* the route handler up to matchRoute: 401 without tenant, 404 without route;
\* m is whether a route of the tenant matches the request's method and path
Handler ==
    /\ req.pc = "handler"
    /\ IF ~HookRuns(pxReply)
       THEN /\ req' = [req EXCEPT !.pc = "done"]
            /\ UNCHANGED <<pxTrace, pxReply>>
       ELSE IF req.tenant = <<>>
       THEN /\ pxReply' = ErrorReply(401)
            /\ req' = [req EXCEPT !.pc = "done", !.rejectedBy = "handler"]
            /\ UNCHANGED pxTrace
       ELSE /\ pxTrace' = Append(pxTrace, "match")
            /\ \E m \in BOOLEAN :
                 IF ~m
                 THEN /\ pxReply' = ErrorReply(404)
                      /\ req' = [req EXCEPT !.pc = "done", !.rejectedBy = "match"]
                 ELSE /\ req' = [req EXCEPT !.pc = "health", !.matches = TRUE]
                      /\ UNCHANGED pxReply
    /\ UNCHANGED <<route, rs, pxEnv, pxUpCalls, pxSnap, pxRec, clockVars, storeVars, hcVars, cbVars,
                   rlVars, rtVars>>

\* health gate of handleProxy; cacheUp is whether the shared-cache read of the
\* health status answers (it is made only when a checker is registered)
HealthGate ==
    /\ req.pc = "health"
    /\ IF route.healthCheck
       THEN /\ pxTrace' = Append(pxTrace, "health")
            /\ \E cacheUp \in BOOLEAN :
                 IF hcRegistered /\ ~cacheUp
                 THEN /\ pxReply' = UnhandledReply
                      /\ req' = [req EXCEPT !.pc = "done",
                                            !.faults = @ \cup {"health"}]
                 ELSE /\ cacheUp
                      /\ IF isUpstreamHealthy(hcRegistered, hcStored, hcExpireAt, now)
                         THEN /\ req' = [req EXCEPT !.pc = "breaker"]
                              /\ UNCHANGED pxReply
                         ELSE /\ pxReply' = FallbackOr(503)
                              /\ req' = [req EXCEPT !.pc = "done",
                                                    !.rejectedBy = "health"]
       ELSE /\ req' = [req EXCEPT !.pc = "breaker"]
            /\ UNCHANGED <<pxTrace, pxReply>>
    /\ UNCHANGED <<route, rs, pxEnv, pxUpCalls, pxSnap, pxRec, clockVars, storeVars, hcVars,
                   cbVars, rlVars, rtVars>>

\* breaker gate of handleProxy; on admission the upstream stage begins.
\* cacheUp is whether the shared cache answers canExecute()
BreakerGate ==
    /\ req.pc = "breaker"
    /\ IF cbCfg.enabled
       THEN /\ pxTrace' = Append(pxTrace, "breaker")
            /\ \E cacheUp \in BOOLEAN :
                 IF cacheUp
                 THEN /\ CanExecuteCall(0)
                      /\ IF cbLast'.ret
                         THEN /\ req' = [req EXCEPT !.pc = "upstream"]
                              /\ UNCHANGED pxReply
                         ELSE /\ pxReply' = FallbackOr(503)
                              /\ req' = [req EXCEPT !.pc = "done",
                                                    !.rejectedBy = "breaker"]
                 ELSE /\ pxReply' = UnhandledReply
                      /\ req' = [req EXCEPT !.pc = "done",
                                            !.faults = @ \cup {"canExecute"}]
                      /\ UNCHANGED <<now, cbVars>>
       ELSE /\ req' = [req EXCEPT !.pc = "upstream"]
            /\ UNCHANGED <<pxTrace, pxReply, now, cbVars>>
    /\ RetryEntry(rtCfg)
    /\ UNCHANGED <<route, rs, pxEnv, pxUpCalls, pxSnap, pxRec, nticks, storeVars, hcVars,
                   rlVars>>

\* what the upstream does with one call: a response status, the per-attempt
\* timeout firing, or a connection failure
UpstreamOutcomes ==
    {[kind |-> "response", status |-> st] : st \in {200, 404, 500}}
    \cup {[kind |-> "abort", status |-> 0], [kind |-> "network", status |-> 0]}

\* makeUpstreamRequest(options): resolves with the response or rejects with
\* what fetch throws
makeUpstreamRequest(u) ==
    IF u.kind = "response" THEN Resolved(u.status)
    ELSE IF u.kind = "abort"
    THEN Thrown([name |-> "AbortError", message |-> {}, statusCode |-> Null])
    ELSE Thrown([name |-> "TypeError", message |-> {"fetch"}, statusCode |-> Null])

\* the function handleProxy passes to withRetry: a retryable status with
\* retries left is thrown as an error carrying statusCode
ProxyFn(u, attempt, cfg) ==
    LET r == makeUpstreamRequest(u)
    IN IF /\ r.ok
          /\ isRetryableStatusCode(r.result[1], cfg.retryableStatusCodes)
          /\ attempt < cfg.maxRetries
       THEN Thrown([name |-> "Error", message |-> {}, statusCode |-> r.result[1]])
       ELSE r

RanUpstream == IF pxUpCalls = 0 THEN Append(pxTrace, "upstream") ELSE pxTrace

\* one attempt of the retry wrapper
UpstreamAttempt ==
    /\ req.pc = "upstream"
    /\ rtCfg.enabled
    /\ \E u \in UpstreamOutcomes :
           /\ RetryInvoke(ProxyFn(u, rtAttempt, rtCfg))
           /\ req' = [req EXCEPT !.outs = Append(@, u),
                                 !.pc = IF rtPc' = "done" THEN "finish"
                                        ELSE "upstream"]
    /\ pxUpCalls' = pxUpCalls + 1
    /\ pxTrace' = RanUpstream
    /\ UNCHANGED <<route, rs, pxEnv, pxReply, pxSnap, pxRec, clockVars, storeVars, hcVars,
                   cbVars, rlVars>>

\* the sleep between two attempts
UpstreamSleep ==
    /\ req.pc = "upstream"
    /\ rtCfg.enabled
    /\ RetrySleep
    /\ req' = [req EXCEPT !.pc = IF rtPc' = "done" THEN "finish" ELSE "upstream"]
    /\ UNCHANGED <<route, rs, pxEnv, pxTrace, pxUpCalls, pxReply, pxSnap, pxRec, nticks,
                   storeVars, hcVars, cbVars, rlVars>>

\* the direct request made when retry is not enabled
UpstreamDirect ==
    /\ req.pc = "upstream"
    /\ ~rtCfg.enabled
    /\ \E u \in UpstreamOutcomes :
           req' = [req EXCEPT !.pc = "finish", !.outs = Append(@, u),
                              !.up = <<makeUpstreamRequest(u)>>]
    /\ pxUpCalls' = pxUpCalls + 1
    /\ pxTrace' = RanUpstream
    /\ UNCHANGED <<route, rs, pxEnv, pxReply, pxSnap, pxRec, clockVars, storeVars, hcVars,
                   cbVars, rlVars, rtVars>>

\* how handleProxy ends once the upstream stage is over: "exhausted" (the
\* retry result carries no response), "timeout" / "failed" (catch block), or
\* "forward" with the response status
ProxyEnding(retryEnabled, result, up) ==
    IF retryEnabled
    THEN IF ~result[1].success \/ result[1].result = <<>>
         THEN [how |-> "exhausted", status |-> 0]
         ELSE [how |-> "forward", status |-> result[1].result[1]]
    ELSE IF ~up[1].ok
         THEN IF up[1].error[1].name = "AbortError"
              THEN [how |-> "timeout", status |-> 0]
              ELSE [how |-> "failed", status |-> 0]
         ELSE [how |-> "forward", status |-> up[1].result[1]]

\* response.ok
IsOk(status) == 200 <= status /\ status <= 299

BreakerRecord_ClientErrors(e) ==
    IF e.how # "forward" THEN "recordFailure"
    ELSE IF IsOk(e.status) THEN "recordSuccess"
    ELSE IF e.status >= 400 THEN "recordFailure"
    ELSE "none"

\* the breaker call handleProxy makes for an ending
BreakerRecord(e) ==
    IF e.how # "forward" THEN "recordFailure"
    ELSE IF IsOk(e.status) THEN "recordSuccess"
    ELSE IF e.status >= 500 THEN "recordFailure"
    ELSE "none"

EndingReply_TimeoutNoFallback(e) ==
    IF e.how = "forward"
    THEN [pxReply EXCEPT !.status = e.status, !.kind = "upstream"]
    ELSE IF e.how = "timeout" THEN ErrorReply(504)
    ELSE FallbackOr(502)

\* the reply handleProxy sends for an ending
EndingReply(e) ==
    IF e.how = "forward"
    THEN [pxReply EXCEPT !.status = e.status, !.kind = "upstream"]
    ELSE IF e.how = "timeout" THEN FallbackOr(504)
    ELSE FallbackOr(502)

\* handleProxy once the upstream stage is over. An error thrown by the direct
\* request goes to the catch block. Otherwise the outcome is recorded on the
\* breaker (cacheUp: the shared cache answers the call; if not the call throws
\* into the catch block), and exhausted retries are answered at once
RecordOutcome ==
    /\ req.pc = "finish"
    /\ LET e == ProxyEnding(rtCfg.enabled, rtResult, req.up)
           rec == IF cbCfg.enabled THEN BreakerRecord(e) ELSE "none"
       IN IF e.how \in {"timeout", "failed"}
          THEN /\ req' = [req EXCEPT !.pc = "catch",
                                     !.caught = IF e.how = "timeout"
                                                THEN "AbortError" ELSE "Error"]
               /\ UNCHANGED <<cbVars, pxRec, pxReply>>
          ELSE \E cacheUp \in BOOLEAN :
                 IF rec # "none" /\ ~cacheUp
                 THEN /\ pxRec' = Append(pxRec, rec)
                      /\ req' = [req EXCEPT !.pc = "catch", !.caught = "Error",
                                            !.faults = @ \cup {rec}]
                      /\ UNCHANGED <<cbVars, pxReply>>
                 ELSE /\ cacheUp
                      /\ IF rec = "recordSuccess" THEN RecordSuccessCall
                         ELSE IF rec = "recordFailure" THEN RecordFailureCall
                         ELSE UNCHANGED cbVars
                      /\ pxRec' = IF rec = "none" THEN pxRec
                                  ELSE Append(pxRec, rec)
                      /\ IF e.how = "forward"
                         THEN /\ req' = [req EXCEPT !.pc = "forward"]
                              /\ UNCHANGED pxReply
                         ELSE /\ req' = [req EXCEPT !.pc = "done"]
                              /\ pxReply' = EndingReply(e)
    /\ UNCHANGED <<route, rs, pxEnv, pxTrace, pxUpCalls, pxSnap, clockVars, storeVars,
                   hcVars, rlVars, rtVars>>

\* the response is forwarded; if reading its body throws, the error goes to
\* the catch block
Forward ==
    /\ req.pc = "forward"
    /\ \E bodyRead \in BOOLEAN :
           IF bodyRead
           THEN /\ pxReply' = EndingReply(ProxyEnding(rtCfg.enabled, rtResult, req.up))
                /\ req' = [req EXCEPT !.pc = "done"]
           ELSE /\ req' = [req EXCEPT !.pc = "catch", !.caught = "Error"]
                /\ UNCHANGED pxReply
    /\ UNCHANGED <<route, rs, pxEnv, pxTrace, pxUpCalls, pxSnap, pxRec, clockVars, storeVars,
                   hcVars, cbVars, rlVars, rtVars>>

\* catch block of handleProxy: recordFailure() on the breaker, then 504 for an
\* AbortError and 502 otherwise, or the fallback; if recordFailure() throws
\* (cacheUp false) the error leaves the handler
Catch ==
    /\ req.pc = "catch"
    /\ \E cacheUp \in BOOLEAN :
           IF cbCfg.enabled /\ ~cacheUp
           THEN /\ pxRec' = Append(pxRec, "recordFailure")
                /\ pxReply' = UnhandledReply
                /\ req' = [req EXCEPT !.pc = "done",
                                      !.faults = @ \cup {"recordFailure"}]
                /\ UNCHANGED cbVars
           ELSE /\ cacheUp
                /\ IF cbCfg.enabled
                   THEN /\ RecordFailureCall
                        /\ pxRec' = Append(pxRec, "recordFailure")
                   ELSE UNCHANGED <<cbVars, pxRec>>
                /\ pxReply' = EndingReply([how |-> IF req.caught = "AbortError"
                                                  THEN "timeout" ELSE "failed",
                                           status |-> 0])
                /\ req' = [req EXCEPT !.pc = "done"]
    /\ UNCHANGED <<route, rs, pxEnv, pxTrace, pxUpCalls, pxSnap, clockVars, storeVars,
                   hcVars, rlVars, rtVars>>

\* the reply is on the wire: the request and the locals of its handler are gone
Complete ==
    /\ req.pc = "done"
    /\ req' = [NoRequest EXCEPT !.n = req.n]
    /\ pxTrace' = <<>>
    /\ pxUpCalls' = 0
    /\ pxReply' = NoReply
    /\ pxSnap' = <<cbStored, cbExpireAt>>
    /\ pxRec' = <<>>
    /\ RetryEntry(rtCfg)
    /\ cbLast' = NoOp
    /\ rlLast' = NoResult
    /\ UNCHANGED <<rlProc, iso>>
    /\ UNCHANGED <<route, rs, pxEnv, clockVars, storeVars, hcVars, cbCfg, cbStored, cbExpireAt,
                   cbRun, cbOpenedAt, cbProbe, cbProc, rlCfg, zset, rlExpireAt, rlCalls,
                   rlAllowed>>

\* The gateway handles the modelled request in less than one step of the clock;
\* what happens around it (admin calls, probes, time) happens between requests.
Quiet == req.pc = "idle"

\* deactivateTenant(id) / activateTenant(id) of the admin API
SetActive ==
    /\ Quiet
    /\ tenantActive' = ~tenantActive
    /\ UNCHANGED <<tcache, tcExpireAt, vaLog, vaProc, clockVars, hcVars, pxVars, cbVars, rlVars,
                   rtVars>>

\* one probe of the upstream's health checker, HealthChecker.check(), run by
\* the gateway process that registered it: this one (hcRegistered) or another
\* one sharing the cache; probes and clock steps share the run's budget of
\* steps between requests
HealthProbe ==
    /\ Quiet
    /\ route.healthCheck
    /\ nticks < MaxPxTicks
    /\ nticks' = nticks + 1
    /\ \E ok \in BOOLEAN : HealthCheckCall(ok)
    /\ UNCHANGED <<hcCfg, hcRegistered, hcProbes, hcLast, hm, hcRun, now, storeVars, pxVars,
                   cbVars, rlVars, rtVars>>

PxTickSteps == {DEFAULT_WINDOW_MS, TENANT_CACHE_TTL_SECONDS * 1000}

\* the prober of a started checker: check() at start() and at every firing of
\* the interval timer
HcCheck ==
    /\ hcProbes < MaxHcProbes
    /\ hcLast.after.lastCheckTime # now
    /\ \E ok \in BOOLEAN :
           /\ HealthCheckCall(ok)
           /\ hcLast' = [ok |-> ok,
                         before |-> hcGetStatus(hcStored, hcExpireAt, now),
                         after |-> hcStored'[1]]
    /\ hcProbes' = hcProbes + 1
    /\ UNCHANGED <<hcCfg, hcRegistered, hm, hcRun, clockVars, storeVars, pxVars, cbVars, rlVars,
                   rtVars>>

\* intervalMs pass until the timer fires again
HcInterval ==
    /\ hcLast.after.lastCheckTime = now
    /\ hcProbes < MaxHcProbes
    /\ now' = now + hcCfg.intervalMs
    /\ UNCHANGED <<nticks, hcVars, storeVars, pxVars, cbVars, rlVars, rtVars>>

NextHealth == HcCheck \/ HcInterval

\* no probe for the TTL of the status key: the process that ran the prober is
\* down or has stopped it, and the SETEX of the last probe runs out
HcOutage ==
    /\ nticks < MaxConcTicks
    /\ now' = now + hcTtlMs(hcCfg)
    /\ nticks' = nticks + 1
    /\ UNCHANGED <<hcVars, storeVars, pxVars, cbVars, rlVars, rtVars>>

NextOutage == HcCheck \/ HcInterval \/ HcOutage

\* timing of a run: the cache answers within the millisecond and time passes
\* in whole windows, or time also passes within a window and inside the hook
PxEnvFast == [steps |-> PxTickSteps, delays |-> {0}]
PxEnvSlow == [steps |-> {DEFAULT_WINDOW_MS - 1, DEFAULT_WINDOW_MS},
              delays |-> RlReplyDelays]

TickPX ==
    \E d \in pxEnv.steps :
        /\ Quiet
        /\ nticks < MaxPxTicks
        /\ now' = now + d
        /\ nticks' = nticks + 1
        /\ UNCHANGED <<storeVars, hcVars, pxVars, cbVars, rlVars, rtVars>>

NextProxy ==
    \/ Arrive \/ Auth \/ RateLimit \/ Handler \/ HealthGate \/ BreakerGate
    \/ UpstreamAttempt \/ UpstreamSleep \/ UpstreamDirect \/ RecordOutcome \/ Forward
    \/ Catch \/ Complete
    \/ SetActive \/ HealthProbe \/ TickPX

----------------------------------------------------------------------------
\* one configuration of each component, for the runs that exercise another one
OneCbConfig ==
    {[enabled |-> TRUE, failureThreshold |-> MaxThreshold,
      successThreshold |-> MaxThreshold, timeout |-> TimeoutMs]}
OneRlConfig == {[requestsPerSecond |-> MaxLimit, burstSize |-> Null]}
OneRetryConfig ==
    {[enabled |-> TRUE, maxRetries |-> MaxRetries, baseDelayMs |-> BaseDelayMs,
      maxDelayMs |-> MaxDelayMs, retryableStatusCodes |-> <<>>]}

OneRoute == [healthCheck |-> TRUE, fallback |-> FALSE]

\* the gateway at rest: no request in flight, nothing probed
InitGatewayIdle ==
    /\ tenantActive = TRUE /\ tcache = <<>> /\ tcExpireAt = 0
    /\ vaLog = NoValidation
    /\ vaProc = NoValidations
    /\ hcCfg \in {HealthCheckerConfig(c) : c \in HcConfigs}
    /\ hcRegistered = TRUE /\ hcStored = <<>> /\ hcExpireAt = 0 /\ hcProbes = 0
    /\ hcLast = NoProbe
    /\ hm = NoCheckers
    /\ hcRun = NoChecker
    /\ InitProxy({OneRoute}, PxEnvFast)

InitBreakerRuns ==
    /\ InitClock /\ InitCB(CbConfigs) /\ InitRL(OneRlConfig)
    /\ InitRetry(OneRetryConfig) /\ InitGatewayIdle

InitLimiterRuns ==
    /\ InitClock /\ InitCB(OneCbConfig) /\ InitRL(RlConfigs)
    /\ InitRetry(OneRetryConfig) /\ InitGatewayIdle

InitRetryRuns ==
    /\ InitClock /\ InitCB(OneCbConfig) /\ InitRL(OneRlConfig)
    /\ InitRetry(RetryConfigs) /\ InitGatewayIdle

\* the configurations of the route a proxied request is matched to
ProxyCbConfigs ==
    [enabled : BOOLEAN, failureThreshold : {1}, successThreshold : {1},
     timeout : {2 * DEFAULT_WINDOW_MS}]
ProxyRetryConfigs ==
    [enabled : BOOLEAN, maxRetries : {1}, baseDelayMs : {BaseDelayMs},
     maxDelayMs : {MaxDelayMs}, retryableStatusCodes : {<<>>}]
ProxyRlConfigs == {[requestsPerSecond |-> 1, burstSize |-> Null]}
ConcRlConfigs == [requestsPerSecond : 1..MaxLimit, burstSize : {Null}]

InitProxyRuns ==
    /\ InitClock /\ InitCB(ProxyCbConfigs) /\ InitRL(ProxyRlConfigs)
    /\ InitRetry(ProxyRetryConfigs) /\ InitStore /\ InitProxy(Routes, PxEnvFast)
    /\ InitHealth

\* runs in which sub-second time passes between requests and inside the
\* rate-limit hook, for a route with every resilience feature but the fallback
InitHookRuns ==
    /\ InitClock /\ InitCB({c \in ProxyCbConfigs : c.enabled})
    /\ InitRL(ProxyRlConfigs) /\ InitRetry(ProxyRetryConfigs) /\ InitStore
    /\ InitProxy({[healthCheck |-> TRUE, fallback |-> FALSE]}, PxEnvSlow)
    /\ InitHealth

SpecCB == InitBreakerRuns /\ [][NextCB]_vars

EnabledCbConfigs == {c \in CbConfigs : c.enabled}

InitRecoveryRuns ==
    /\ InitClock /\ InitCB(EnabledCbConfigs) /\ InitRL(OneRlConfig)
    /\ InitRetry(OneRetryConfig) /\ InitGatewayIdle

\* breaker operations of concurrent requests, one cache round trip per step
SpecCBC == InitRecoveryRuns /\ [][NextCBC]_vars

\* requests keep arriving (canExecute), their 2xx responses keep being
\* recorded (recordSuccess), and the clock keeps running
SpecRecovery ==
    /\ InitRecoveryRuns /\ [][NextRecovery]_vars
    /\ WF_vars(CanExecute) /\ WF_vars(RecordSuccess) /\ WF_vars(TickRecovery)

SpecRL == InitLimiterRuns /\ [][NextRL]_vars

InitLimiterRaces ==
    /\ InitClock /\ InitCB(OneCbConfig) /\ InitRL(ConcRlConfigs)
    /\ InitRetry(OneRetryConfig) /\ InitGatewayIdle

SpecRLC == InitLimiterRaces /\ [][NextRLC]_vars

SpecRetry == InitRetryRuns /\ [][NextRetry]_vars

SpecRetryFair == SpecRetry /\ WF_vars(NextRetry)

SpecProxy == InitProxyRuns /\ [][NextProxy]_vars

SpecHook == InitHookRuns /\ [][NextProxy]_vars

\* the health checker of one upstream on its own: thresholds of the route
HcProbeConfigs ==
    [intervalMs : {1000}, healthyThreshold : 1..MaxThreshold,
     unhealthyThreshold : 1..MaxThreshold]

InitProberRuns ==
    /\ InitClock /\ InitCB(OneCbConfig) /\ InitRL(OneRlConfig)
    /\ InitRetry(OneRetryConfig) /\ InitStore /\ InitProxy({OneRoute}, PxEnvFast)
    /\ hcCfg \in {HealthCheckerConfig(c) : c \in HcProbeConfigs}
    /\ hcRegistered = TRUE /\ hcStored = <<>> /\ hcExpireAt = 0 /\ hcProbes = 0
    /\ hcLast = NoProbe
    /\ hm = NoCheckers
    /\ hcRun = NoChecker

SpecHealth == InitProberRuns /\ [][NextHealth]_vars

\* a prober that runs, stops for a while, and runs again
SpecOutage == InitProberRuns /\ [][NextOutage]_vars

\* check() up to its first await: Date.now() is read and the GET is sent
BeginCheck(r, t) ==
    [r EXCEPT !.flights = @ \cup {[id |-> r.begun + 1, t |-> t, pc |-> "getStatus",
                                   status |-> hcDefaultStatus]},
              !.begun = @ + 1]

\* HealthChecker.start(): the initial check, then setInterval
HcStart ==
    /\ ~hcRun.intervalId
    /\ ~hcRun.stopped
    /\ hcRun.begun < MaxHcProbes
    /\ hcRun' = [BeginCheck(hcRun, now) EXCEPT !.intervalId = TRUE]
    /\ UNCHANGED <<hcCfg, hcRegistered, hcStored, hcExpireAt, hcProbes, hcLast, hm,
                   clockVars, storeVars, pxVars, cbVars, rlVars, rtVars>>

\* intervalMs later the interval timer fires and calls check()
HcTimer ==
    /\ hcRun.intervalId
    /\ hcRun.begun < MaxHcProbes
    /\ now' = now + hcCfg.intervalMs
    /\ hcRun' = BeginCheck(hcRun, now')
    /\ UNCHANGED <<hcCfg, hcRegistered, hcStored, hcExpireAt, hcProbes, hcLast, hm,
                   nticks, storeVars, pxVars, cbVars, rlVars, rtVars>>

\* check() resumes with the status read and issues the probe, fetch(healthUrl)
HcFetch ==
    \E f \in hcRun.flights :
        /\ f.pc = "getStatus"
        /\ hcRun' = [hcRun EXCEPT !.flights = (@ \ {f}) \cup
                        {[f EXCEPT !.pc = "fetch",
                                   !.status = hcGetStatus(hcStored, hcExpireAt, now)]}]
        /\ UNCHANGED <<hcCfg, hcRegistered, hcStored, hcExpireAt, hcProbes, hcLast,
                       hm, clockVars, storeVars, pxVars, cbVars, rlVars, rtVars>>

\* the probe settles: recordSuccess / recordFailure with the status and the
\* timestamp check() read, then setStatus
HcSettle ==
    \E f \in hcRun.flights, ok \in BOOLEAN :
        /\ f.pc = "fetch"
        /\ hcStored' = <<IF ok THEN hcRecordSuccess(f.status, f.t, hcCfg)
                         ELSE hcRecordFailure(f.status, f.t, hcCfg)>>
        /\ hcExpireAt' = now + hcTtlMs(hcCfg)
        /\ hcRun' = [hcRun EXCEPT !.flights = @ \ {f}]
        /\ UNCHANGED <<hcCfg, hcRegistered, hcProbes, hcLast, hm, clockVars,
                       storeVars, pxVars, cbVars, rlVars, rtVars>>

\* HealthChecker.stop(), which stopAll(), unregisterUpstream() and the onClose
\* hook call: clearInterval and intervalId = null
HcStop ==
    /\ hcRun.intervalId
    /\ hcRun' = [hcRun EXCEPT !.intervalId = FALSE, !.stopped = TRUE]
    /\ UNCHANGED <<hcCfg, hcRegistered, hcStored, hcExpireAt, hcProbes, hcLast, hm,
                   clockVars, storeVars, pxVars, cbVars, rlVars, rtVars>>

NextChecker == HcStart \/ HcTimer \/ HcFetch \/ HcSettle \/ HcStop

\* HealthCheckManager.forceCheck(): check() on the registered checker, whatever
\* the timer is doing
HcForceCheck ==
    /\ hcRun.begun < MaxHcProbes
    /\ hcRun' = BeginCheck(hcRun, now)
    /\ UNCHANGED <<hcCfg, hcRegistered, hcStored, hcExpireAt, hcProbes, hcLast, hm,
                   clockVars, storeVars, pxVars, cbVars, rlVars, rtVars>>

\* the probe settles, and the completed probe is counted
HcSettleCounted ==
    \E f \in hcRun.flights, ok \in BOOLEAN :
        /\ f.pc = "fetch"
        /\ hcStored' = <<IF ok THEN hcRecordSuccess(f.status, f.t, hcCfg)
                         ELSE hcRecordFailure(f.status, f.t, hcCfg)>>
        /\ hcExpireAt' = now + hcTtlMs(hcCfg)
        /\ hcRun' = [hcRun EXCEPT
                        !.flights = @ \ {f},
                        !.runs = IF ok THEN [ok |-> @.ok + 1, failed |-> 0]
                                 ELSE [ok |-> 0, failed |-> @.failed + 1]]
        /\ UNCHANGED <<hcCfg, hcRegistered, hcProbes, hcLast, hm, clockVars,
                       storeVars, pxVars, cbVars, rlVars, rtVars>>

NextOverlap == HcStart \/ HcTimer \/ HcForceCheck \/ HcFetch \/ HcSettleCounted

\* the probes of one checker, begun by start(), the timer and forceCheck()
SpecOverlap == InitProberRuns /\ [][NextOverlap]_vars

\* a started checker followed until after its stop()
SpecChecker == InitProberRuns /\ [][NextChecker]_vars

\* time passes by a millisecond or by just less than the TTL of the cache entry
AuthTickSteps == {1, TENANT_CACHE_TTL_SECONDS * 1000 - 1}

\* one validateApiKey(apiKey) call; prev is the history as the call found it
ValidateApiKey ==
    /\ vaLog.n < MaxCalls
    /\ \E k \in {TenantKey, UnknownKey}, getOk \in BOOLEAN, setOk \in BOOLEAN :
         LET c == validateApiKeyCall(k, tcache, tcExpireAt, tenantActive, now,
                                     getOk, setOk)
             ok == ~c.threw /\ c.tenant # <<>>
         IN /\ IF c.write
               THEN /\ tcache' = c.tenant
                    /\ tcExpireAt' = now + TENANT_CACHE_TTL_SECONDS * 1000
               ELSE UNCHANGED <<tcache, tcExpireAt>>
            /\ vaLog' = [n |-> vaLog.n + 1, at |-> now, key |-> k,
                         out |-> c,
                         activeAt |-> tenantActive,
                         prev |-> [okAt |-> vaLog.okAt, okTenant |-> vaLog.okTenant,
                                   wroteAt |-> vaLog.wroteAt, wrote |-> vaLog.wrote],
                         okAt |-> IF ok THEN now ELSE vaLog.okAt,
                         okTenant |-> IF ok THEN c.tenant ELSE vaLog.okTenant,
                         wroteAt |-> IF c.write THEN now ELSE vaLog.wroteAt,
                         wrote |-> IF c.write THEN c.tenant ELSE vaLog.wrote]
    /\ UNCHANGED <<tenantActive, vaProc, clockVars, hcVars, pxVars, cbVars, rlVars, rtVars>>

TickAuth ==
    \E d \in AuthTickSteps :
        /\ nticks < MaxConcTicks
        /\ now' = now + d
        /\ nticks' = nticks + 1
        /\ UNCHANGED <<storeVars, hcVars, pxVars, cbVars, rlVars, rtVars>>

NextAuth == ValidateApiKey \/ SetActive \/ TickAuth

\* validateApiKey(apiKey) up to its first await's answer: redis.get, and on a
\* hit the return
VaGet(p) ==
    /\ vaProc.pc[p] = "idle"
    /\ vaProc.n < MaxConcCalls
    /\ LET v == validateApiKey(TenantKey, tcache, tcExpireAt, tenantActive, now)
           hit == tcache # <<>> /\ now < tcExpireAt
       IN vaProc' = IF hit
                    THEN [vaProc EXCEPT !.n = @ + 1,
                                        !.last = [tenant |-> v.tenant, at |-> now]]
                    ELSE [vaProc EXCEPT !.n = @ + 1, !.pc[p] = "find"]
    /\ UNCHANGED <<tenantActive, tcache, tcExpireAt, vaLog, clockVars, hcVars,
                   pxVars, cbVars, rlVars, rtVars>>

\* tenantRepository.findActiveTenants() answers; with no row the call
\* returns null
VaFind(p) ==
    /\ vaProc.pc[p] = "find"
    /\ LET rows == findActiveTenants(tenantActive)
       IN vaProc' = IF rows = {}
                    THEN [vaProc EXCEPT !.pc[p] = "idle",
                                        !.last = [tenant |-> <<>>, at |-> now]]
                    ELSE [vaProc EXCEPT !.pc[p] = "compare", !.rows[p] = rows]
    /\ UNCHANGED <<tenantActive, tcache, tcExpireAt, vaLog, clockVars, hcVars,
                   pxVars, cbVars, rlVars, rtVars>>

\* compare() matched a row read earlier: redis.setex, then return tenant
VaSetex(p) ==
    /\ vaProc.pc[p] = "compare"
    /\ LET tenant == CHOOSE r \in vaProc.rows[p] : TRUE
       IN /\ tcache' = <<tenant>>
          /\ tcExpireAt' = now + TENANT_CACHE_TTL_SECONDS * 1000
          /\ vaProc' = [vaProc EXCEPT !.pc[p] = "idle", !.rows[p] = {},
                                      !.last = [tenant |-> <<tenant>>, at |-> now]]
    /\ UNCHANGED <<tenantActive, vaLog, clockVars, hcVars, pxVars, cbVars, rlVars,
                   rtVars>>

\* deactivateTenant(id): updateTenant(id, {isActive: false})
DeactivateTenant ==
    /\ tenantActive
    /\ tenantActive' = FALSE
    /\ vaProc' = [vaProc EXCEPT !.deactivatedAt = now]
    /\ UNCHANGED <<tcache, tcExpireAt, vaLog, clockVars, hcVars, pxVars, cbVars,
                   rlVars, rtVars>>

NextAuthRaces ==
    \/ \E p \in Callers : VaGet(p) \/ VaFind(p) \/ VaSetex(p)
    \/ DeactivateTenant
    \/ TickAuth

InitAuthRuns ==
    /\ InitClock /\ InitCB(OneCbConfig) /\ InitRL(OneRlConfig)
    /\ InitRetry(OneRetryConfig) /\ InitGatewayIdle

\* validateApiKey called over time while the tenant is deactivated and
\* activated
SpecAuth == InitAuthRuns /\ [][NextAuth]_vars

\* validateApiKey calls of concurrent requests, one await per step, while
\* the tenant is deactivated
SpecAuthRaces == InitAuthRuns /\ [][NextAuthRaces]_vars

\* two routes of 1..MaxUpstreams upstreams each, with any strategy
LbRoutes ==
    {<<[r1 EXCEPT !.id = 1], [r2 EXCEPT !.id = 2]>> :
        r1, r2 \in [id : {0}, method : {"*"}, path : {PathA}, pathType : {"exact"},
                    n : 1..MaxUpstreams, loadBalancing : Strategies]}

RECURSIVE Numbered(_)
\* the rows as the store returns them: route i has id i
Numbered(rows) ==
    IF rows = <<>> THEN <<>>
    ELSE Append(Numbered(SubSeq(rows, 1, Len(rows) - 1)),
                [rows[Len(rows)] EXCEPT !.id = Len(rows)])

\* active routes a tenant can have stored, each with two upstreams
RouteRows ==
    [id : {0}, method : {"*", "GET"},
     path : {PathA, PathAB, PathASlash}, pathType : {"exact", "prefix"},
     n : {2}, loadBalancing : {"round-robin"}]
    \cup [id : {0}, method : {"*", "GET"}, path : {ReAnyUnderA, ReInvalid},
          pathType : {"regex"}, n : {2}, loadBalancing : {"round-robin"}]

RouteLists ==
    UNION {{Numbered(l) : l \in [1..k -> RouteRows]} : k \in 0..MaxRoutes}

InitRouting(lists) ==
    /\ InitClock /\ InitCB(OneCbConfig) /\ InitRL(OneRlConfig)
    /\ InitRetry(OneRetryConfig) /\ InitStore
    /\ hcCfg \in {HealthCheckerConfig(c) : c \in HcConfigs}
    /\ hcRegistered = TRUE /\ hcStored = <<>> /\ hcExpireAt = 0 /\ hcProbes = 0
    /\ hcLast = NoProbe /\ hm = NoCheckers /\ hcRun = NoChecker
    /\ route = OneRoute
    /\ pxEnv = PxEnvFast /\ req = NoRequest /\ pxTrace = <<>>
    /\ pxUpCalls = 0 /\ pxReply = NoReply /\ pxSnap = <<cbStored, cbExpireAt>>
    /\ pxRec = <<>>
    /\ rs \in {[NoRouting EXCEPT !.routes = l] : l \in lists}

NextLB == SelectUpstream
SpecLB == InitRouting(LbRoutes) /\ [][NextLB]_vars

NextMatch == MatchRoute
SpecMatch == InitRouting(RouteLists) /\ [][NextMatch]_vars

\* two tenants with the same limit calling the gateway
SpecTenants == InitLimiterRuns /\ [][NextTenants]_vars

InitManagerRuns ==
    /\ InitClock /\ InitCB(OneCbConfig) /\ InitRL(OneRlConfig)
    /\ InitRetry(OneRetryConfig) /\ InitGatewayIdle

SpecManager == InitManagerRuns /\ [][NextManager]_vars

----------------------------------------------------------------------------
(* Circuit breaker properties *)

StoredState == IF cbStored = <<>> THEN "none" ELSE cbStored[1].state

\* the k-th recordFailure() of a run that started from CLOSED with failures=0
ThresholdReached ==
    /\ cbCfg.enabled
    /\ cbRun.len = cbCfg.failureThreshold

\* a canExecute() made less than `timeout` ms after the opening returns false
BlockedWhileOpen ==
    (/\ ThresholdReached
     /\ cbLast.op = "canExecute"
     /\ cbOpenedAt # Null
     /\ cbLast.at - cbOpenedAt < cbCfg.timeout)
    => cbLast.ret = FALSE

\* C2 (as stated): after failureThreshold recordFailure() calls from CLOSED
\* with failures=0 and no recordSuccess() between them the stored state is
\* OPEN, and canExecute() returns false until `timeout` ms have passed.
C2_AsStated ==
    /\ (ThresholdReached /\ cbLast.op = "recordFailure") => StoredState = "OPEN"
    /\ BlockedWhileOpen

\* C2 (amended): the same, for runs in which every recordFailure() after the
\* first finds the cb: key unexpired (TTL = timeout + 60 s since the last write).
C2_OpensAfterThreshold ==
    /\ (ThresholdReached /\ cbRun.gapOk /\ cbLast.op = "recordFailure")
           => StoredState = "OPEN"
    /\ (cbRun.gapOk => BlockedWhileOpen)

C2_Witness ==
    /\ ThresholdReached /\ cbRun.gapOk
    /\ cbCfg.failureThreshold >= 2
    /\ StoredState = "OPEN"
    /\ cbLast.op = "canExecute" /\ cbLast.ret = FALSE
    /\ cbLast.at > cbOpenedAt

\* C3: in HALF_OPEN a single recordFailure() writes OPEN with successes=0 and
\* lastStateChange = lastFailureTime = now, whatever the successes so far.
C3_HalfOpenFailureOpens ==
    (/\ cbCfg.enabled
     /\ cbLast.op = "recordFailure"
     /\ cbLast.before.state = "HALF_OPEN")
    => /\ cbStored # <<>>
       /\ cbStored[1].state = "OPEN"
       /\ cbStored[1].successes = 0
       /\ cbStored[1].lastStateChange = cbLast.at
       /\ cbStored[1].lastFailureTime = cbLast.at
       /\ cbExpireAt > cbLast.at

C3_Witness ==
    /\ cbCfg.enabled
    /\ cbLast.op = "recordFailure"
    /\ cbLast.before.state = "HALF_OPEN"
    /\ cbLast.before.successes = cbCfg.successThreshold - 1
    /\ cbLast.before.successes >= 1
    /\ StoredState = "OPEN"

\* C4 (as stated): once `timeout` ms have elapsed since the opening, the next
\* canExecute() writes HALF_OPEN with successes=0 and a fresh lastStateChange
\* and returns true, and until an outcome is recorded exactly one canExecute()
\* returns true.
C4_SingleProbe ==
    /\ (/\ cbCfg.enabled
        /\ cbLast.op = "canExecute"
        /\ cbLast.before.state = "OPEN"
        /\ cbLast.at - cbLast.before.lastStateChange >= cbCfg.timeout)
       => /\ cbLast.ret = TRUE
          /\ StoredState = "HALF_OPEN"
          /\ cbStored[1].successes = 0
          /\ cbStored[1].lastStateChange >= cbLast.at
    /\ cbProbe <= 1

\* C5: in HALF_OPEN recordSuccess() adds one to successes and stays HALF_OPEN
\* until the call that reaches successThreshold, which writes CLOSED with
\* failures=0, successes=0 and the lastFailureTime it read.
C5_HalfOpenSuccess ==
    (/\ cbCfg.enabled
     /\ cbLast.op = "recordSuccess"
     /\ cbLast.before.state = "HALF_OPEN")
    => /\ cbStored # <<>>
       /\ cbLast.before.successes < cbCfg.successThreshold
       /\ IF cbLast.before.successes + 1 < cbCfg.successThreshold
          THEN cbStored[1] = [cbLast.before EXCEPT
                                  !.successes = cbLast.before.successes + 1]
          ELSE /\ cbStored[1].state = "CLOSED"
               /\ cbStored[1].failures = 0
               /\ cbStored[1].successes = 0
               /\ cbStored[1].lastFailureTime = cbLast.before.lastFailureTime

C5_Witness ==
    /\ cbCfg.enabled
    /\ cbCfg.successThreshold >= 2
    /\ cbLast.op = "recordSuccess"
    /\ cbLast.before.state = "HALF_OPEN"
    /\ cbLast.before.successes = cbCfg.successThreshold - 1
    /\ StoredState = "CLOSED"
    /\ cbStored[1].lastFailureTime # Null

----------------------------------------------------------------------------
(* Rate limiter properties *)

\* the allowed calls whose timestamps lie within one window starting at a's
SameWindow(a) ==
    {b \in rlAllowed : a.ts <= b.ts /\ b.ts < a.ts + DEFAULT_WINDOW_MS}

\* C1: the calls answered allowed=true never include more than `limit` calls
\* whose timestamps are pairwise less than 1000 ms apart.
C1_AtMostLimitPerWindow ==
    \A a \in rlAllowed : Cardinality(SameWindow(a)) <= EffectiveLimit(rlCfg)

\* the first n calls on the key were all made at instant t and allowed, and
\* no other call was allowed
BurstAt(t, n) == rlAllowed = {[ts |-> t, id |-> i] : i \in 1..n}

\* C15: starting from an empty window, `limit` calls at one instant are all
\* allowed, the next call within the same 1 s window is denied, and a call
\* made 1001 ms after the first one is allowed.
C15_BurstThenWindow ==
    [][rlCalls' = rlCalls + 1 =>
         LET limit == EffectiveLimit(rlCfg)
         IN /\ (rlCalls < limit /\ BurstAt(now, rlCalls) => rlLast'.allowed)
            /\ (\A t \in 0..now :
                    (/\ BurstAt(t, limit) /\ rlCalls = limit
                     /\ now < t + DEFAULT_WINDOW_MS)
                    => ~rlLast'.allowed)
            /\ (rlCalls = limit + 1 /\ BurstAt(now - DEFAULT_WINDOW_MS - 1, limit)
                  => rlLast'.allowed)]_vars

C15_Witness ==
    LET limit == EffectiveLimit(rlCfg)
    IN /\ rlCalls = limit + 2
       /\ rlLast.allowed
       /\ rlLast.at > DEFAULT_WINDOW_MS
       /\ rlAllowed = {[ts |-> rlLast.at - DEFAULT_WINDOW_MS - 1, id |-> i] : i \in 1..limit}
                        \cup {[ts |-> rlLast.at, id |-> limit + 2]}

----------------------------------------------------------------------------
(* Retry properties *)

\* C9: withRetry (enabled, maxRetries = n) invokes fn at most n+1 times and
\* returns a RetryResult whose attempts equals the number of invocations made.
C9_Counted ==
    rtCfg.enabled =>
        /\ rtCalls <= rtCfg.maxRetries + 1
        /\ (rtPc # "done" => rtCalls <= rtCfg.maxRetries)
        /\ (rtPc = "done" => /\ rtResult # <<>>
                             /\ rtResult[1].attempts = rtCalls)

C9_AttemptsBounded == []C9_Counted /\ <>(rtPc = "done")

C9_Witness ==
    /\ rtCfg.enabled
    /\ rtCfg.maxRetries >= 2
    /\ rtPc = "done"
    /\ rtCalls = rtCfg.maxRetries + 1
    /\ ~rtResult[1].success

\* C10: withRetry (enabled) makes no further call to fn after the first
\* attempt whose failure is non-retryable, whatever the earlier outcomes were.
C10_StopsAtNonRetryable ==
    rtCfg.enabled => ~rtLate

----------------------------------------------------------------------------
(* Proxy pipeline properties *)

\* the breaker gate of the request in flight refused it
BreakerRefused == cbCfg.enabled /\ cbLast.op = "canExecute" /\ ~cbLast.ret

\* C6: when the route's breaker is enabled and canExecute() returns false,
\* handleProxy makes no upstream call, leaves the breaker status as it was, and
\* answers with the fallback if fallback.enabled, else with 503.
C6_RefusalShortCircuits ==
    BreakerRefused =>
        /\ req.pc = "done"
        /\ pxUpCalls = 0
        /\ <<cbStored, cbExpireAt>> = pxSnap
        /\ IF route.fallback
           THEN pxReply.kind = "fallback" /\ pxReply.status = FallbackStatus
           ELSE pxReply.kind = "error" /\ pxReply.status = 503

C6_Witness ==
    /\ BreakerRefused
    /\ ~route.fallback
    /\ StoredState = "OPEN"
    /\ now > cbStored[1].lastStateChange
    /\ pxReply.status = 503
    /\ pxTrace[Len(pxTrace)] = "breaker"

StageIndex(s) == CHOOSE i \in 1..Len(Stages) : Stages[i] = s

InOrder(trace) ==
    \A i, j \in 1..Len(trace) :
        i < j => StageIndex(trace[i]) < StageIndex(trace[j])

Ran(s) == \E i \in 1..Len(pxTrace) : pxTrace[i] = s

\* C7: the stages of a request run in the order auth, rate-limit check, route
\* match, health gate, breaker gate, upstream call; an upstream call is made
\* only if every earlier stage passed; a stage that rejects is the last to run.
C7_StagesInOrder ==
    /\ InOrder(pxTrace)
    /\ (pxTrace # <<>> => pxTrace[1] = "auth")
    /\ (pxUpCalls > 0 <=> Ran("upstream"))
    /\ (Ran("upstream") =>
           /\ Ran("rateLimit") /\ Ran("match")
           /\ req.tenant # <<>> /\ req.matches
           /\ req.rejectedBy = "none")
    /\ (req.rejectedBy \in {"auth", "rateLimit", "match", "health", "breaker"} =>
           /\ pxTrace[Len(pxTrace)] = req.rejectedBy
           /\ pxUpCalls = 0)
    /\ (pxReply.kind = "error" /\ pxReply.status \in {401, 403} =>
           ~Ran("rateLimit"))
    /\ (pxReply.kind = "error" /\ pxReply.status = 429 =>
           ~Ran("match") /\ pxUpCalls = 0)

C7_Witness ==
    /\ req.pc = "done"
    /\ pxTrace = Stages
    /\ pxUpCalls >= 1
    /\ pxReply.kind = "upstream"
    /\ req.n >= 2

\* the request was answered `code` by the auth stage and went no further
AuthRejected(code) ==
    /\ pxReply.kind = "error" /\ pxReply.status = code
    /\ req.tenant = <<>>
    /\ pxTrace = <<"auth">>

\* C8: a request without X-API-Key or with a key of no tenant is answered 401,
\* a request with the key of an inactive tenant is answered 403, and in neither
\* case is request.tenant set or a later stage run.
C8_AuthRejections ==
    req.pc \notin {"idle", "auth"} =>
        /\ (req.apiKey \in {NoHeader, UnknownKey} => AuthRejected(401))
        /\ (req.apiKey = TenantKey /\ ~req.activeAtAuth => AuthRejected(403))

\* an upstream outcome the retry policy of the route counts as retryable: a
\* network error or a response whose status is in retryableStatusCodes
RetryableOutcome(u) ==
    \/ u.kind = "network"
    \/ u.kind = "response"
          /\ isRetryableStatusCode(u.status, rtCfg.retryableStatusCodes)

\* every one of the maxRetries + 1 attempts of the request failed retryably
AllAttemptsRetryable ==
    /\ rtCfg.enabled
    /\ Len(req.outs) = rtCfg.maxRetries + 1
    /\ \A i \in 1..Len(req.outs) : RetryableOutcome(req.outs[i])

\* C11: with retry enabled, when all maxRetries + 1 attempts of a request fail
\* with a retryable outcome (and the shared cache answers every call), the
\* request ends with exactly one recordFailure() on the breaker and the client
\* is answered with the fallback if it is enabled, else 502.
C11_ExhaustedRetries ==
    req.pc = "done" /\ AllAttemptsRetryable /\ req.faults = {} =>
        /\ (cbCfg.enabled => pxRec = <<"recordFailure">>)
        /\ pxReply = FallbackOr(502)

\* the last upstream attempt of the request was aborted by its timeout
LastAttemptAborted ==
    /\ req.outs # <<>>
    /\ req.outs[Len(req.outs)].kind = "abort"

\* C12: when the last upstream attempt of a request is aborted by its
\* per-attempt timeout and no fallback is enabled, the client is answered 504,
\* with retry disabled and with retry enabled (the shared cache answering
\* every call).
C12_TimeoutAnswers504 ==
    req.pc = "done" /\ LastAttemptAborted /\ ~route.fallback /\ req.faults = {} =>
        pxReply = ErrorReply(504)

\* handleProxy itself answered the request after a failure: a gate refused it,
\* the retries were exhausted, or an error reached the catch block
GatewayFailure ==
    /\ pxReply.kind # "unhandled"
    /\ \/ req.rejectedBy \in {"health", "breaker"}
       \/ /\ pxUpCalls > 0
          /\ \/ req.caught # "none"
             \/ ProxyEnding(rtCfg.enabled, rtResult, req.up).how # "forward"

C14_CacheErrorsDegrade ==
    req.pc = "done" =>
        /\ (req.faults \cap {"health", "canExecute"} # {} => pxUpCalls > 0)
        /\ (req.faults \cap {"recordSuccess", "recordFailure"} # {} =>
               pxReply.kind # "unhandled")
        /\ ("recordSuccess" \in req.faults =>
               pxReply = EndingReply(ProxyEnding(rtCfg.enabled, rtResult, req.up)))

\* the members a call found in its window that belong to allowed calls
AllowedFound(c) ==
    {m \in c.found : [ts |-> m.score, id |-> m.id] \in rlAllowed}

\* C16: when checkRateLimit calls on one key interleave at the granularity of
\* shared-cache round trips, a call is denied only if at least `limit` allowed
\* requests are recorded in its window; the transient member of a denied call
\* never causes another call to be denied.
C16_DeniedOnlyByAllowed ==
    \A p \in Callers :
        rlProc[p].pc # "idle" /\ ~rlProc[p].allowed =>
            Cardinality(AllowedFound(rlProc[p])) >= EffectiveLimit(rlCfg)

\* the request reached the rate limiter
ReachedLimiter == Ran("rateLimit")

\* C17: a request whose rate-limit check is denied is answered 429 with a
\* Retry-After of 1 second and the proxy handler does not run; every request
\* that reached the rate limiter carries the X-RateLimit-* headers, and
\* rate_limit_hits_total is incremented once per denied request and never for
\* an allowed one.
C17_DenialReply ==
    req.pc = "done" /\ ReachedLimiter =>
        /\ pxReply.rateLimitHeaders
        /\ req.hits = (IF req.rejectedBy = "rateLimit" THEN 1 ELSE 0)
        /\ (req.rejectedBy = "rateLimit" =>
               /\ pxReply.status = 429 /\ pxReply.kind = "error"
               /\ pxReply.retryAfter = 1
               /\ ~Ran("match") /\ pxUpCalls = 0)

\* C18: from the default status, a failed probe sets consecutiveFailures + 1
\* and consecutiveSuccesses = 0, a successful one consecutiveSuccesses + 1 and
\* consecutiveFailures = 0; healthy becomes false exactly at the probe that
\* makes consecutiveFailures reach unhealthyThreshold, true again exactly at
\* the probe that makes consecutiveSuccesses reach healthyThreshold, and does
\* not change at any other probe.
C18_ProbeCounters ==
    hcProbes > 0 =>
        LET b == hcLast.before
            a == hcLast.after
        IN /\ a = hcStored[1]
           /\ (hcProbes = 1 => b = hcDefaultStatus)
           /\ (~hcLast.ok => /\ a.consecutiveFailures = b.consecutiveFailures + 1
                             /\ a.consecutiveSuccesses = 0)
           /\ (hcLast.ok => /\ a.consecutiveSuccesses = b.consecutiveSuccesses + 1
                            /\ a.consecutiveFailures = 0)
           /\ (b.healthy /\ ~a.healthy <=>
                  /\ ~hcLast.ok /\ b.healthy
                  /\ a.consecutiveFailures = hcCfg.unhealthyThreshold)
           /\ (~b.healthy /\ a.healthy <=>
                  /\ hcLast.ok /\ ~b.healthy
                  /\ a.consecutiveSuccesses = hcCfg.healthyThreshold)

C18_Witness ==
    /\ hcProbes = 4
    /\ hcCfg.unhealthyThreshold = 2 /\ hcCfg.healthyThreshold = 2
    /\ ~hcLast.before.healthy /\ hcLast.after.healthy
    /\ hcLast.after.consecutiveSuccesses = 2

\* the health gate blocked the request: fallback or 503, no upstream call and
\* no access to the breaker
BlockedByHealth ==
    /\ req'.pc = "done" /\ req'.rejectedBy = "health"
    /\ pxReply' = FallbackOr(503)
    /\ pxUpCalls' = 0
    /\ UNCHANGED cbVars

\* C19: for a route with healthCheck.enabled, handleProxy blocks the request
\* exactly when the health status in the shared cache has healthy = false,
\* whichever gateway process wrote it.
C19_BlocksWhenUnhealthy ==
    [][req.pc = "health" /\ req'.pc # "health" /\ route.healthCheck
          /\ "health" \notin req'.faults =>
         (BlockedByHealth <=> ~hcGetStatus(hcStored, hcExpireAt, now).healthy)]_vars

\* C20: after any sequence of registerUpstream, unregisterUpstream, start,
\* startAll, stopAll and clear calls the manager holds at most one checker
\* per triple and each checker has at most one active interval timer;
\* registering an already-registered triple returns the existing checker and
\* creates no second prober.
C20_OneCheckerPerTriple ==
    /\ \A key \in HmKeys : Cardinality({x \in hm.checkers : x.key = key}) <= 1
    /\ \A c \in 1..Len(hm.objs) :
           Cardinality({t \in hm.timers : t.owner = c}) <= 1
    /\ (hm.last.op = "registerUpstream" /\ hm.last.existing # 0 =>
           /\ hm.last.ret = hm.last.existing
           /\ MapGet(hm.checkers, hm.last.key) = hm.last.existing
           /\ Len(hm.objs) = hm.last.made)

C20_Witness ==
    /\ hm.last.op = "registerUpstream"
    /\ hm.last.existing # 0
    /\ hm.last.ret = hm.last.existing
    /\ hm.objs[hm.last.ret].intervalId # Null

----------------------------------------------------------------------------
\* C21: once stop() (called by stopAll(), unregisterUpstream() and the onClose
\* hook) has returned, no further probe is issued and no further health-status
\* write reaches the shared cache, also not from a probe in flight at the stop.
C21_StopIsFinal ==
    [][hcRun.stopped =>
          /\ <<hcStored, hcExpireAt>>' = <<hcStored, hcExpireAt>>
          /\ \A f \in hcRun'.flights : f.pc = "fetch" => f \in hcRun.flights]_vars

----------------------------------------------------------------------------
\* the upstream's response has been sent to the client
Forwarded == req.pc = "done" /\ pxReply.kind = "upstream"

\* C22: for a forwarded upstream response handleProxy calls recordSuccess()
\* exactly when the status is 2xx and recordFailure() exactly when it is 500 or
\* above, once; for a 3xx or 4xx status it makes no breaker call after the
\* gate, so the stored breaker status stays as canExecute() left it.
C22_RecordsByStatus ==
    (Forwarded /\ cbCfg.enabled) =>
        /\ Len(pxRec) <= 1
        /\ (pxRec = <<"recordSuccess">>) <=> IsOk(pxReply.status)
        /\ (pxRec = <<"recordFailure">>) <=> (pxReply.status >= 500)
        /\ (~IsOk(pxReply.status) /\ pxReply.status < 500) =>
               /\ pxRec = <<>>
               /\ cbLast.op = "canExecute"
               /\ IF cbLast.wrote
                  THEN cbStored = <<[cbLast.before EXCEPT
                                         !.state = "HALF_OPEN", !.successes = 0,
                                         !.lastStateChange = cbLast.at]>>
                  ELSE <<cbStored, cbExpireAt>> = pxSnap

\* a 404 is forwarded while the breaker key holds counted failures
C22_Witness ==
    /\ Forwarded /\ cbCfg.enabled
    /\ pxReply.status = 404
    /\ cbStored # <<>> /\ cbStored[1].failures > 0

----------------------------------------------------------------------------
\* C23: with the breaker enabled and retry disabled (no fallback, the cache
\* answering), a request whose upstream call is answered 500 is answered 502 to
\* the client, and a request whose gate observes OPEN within the timeout is
\* answered 503 without any upstream call.
C23_FailuresAnswer502 ==
    (/\ req.pc = "done" /\ cbCfg.enabled /\ ~rtCfg.enabled /\ ~route.fallback
     /\ req.faults = {}) =>
        /\ (/\ req.outs # <<>>
            /\ req.outs[1] = [kind |-> "response", status |-> 500]
            /\ pxReply.kind # "unhandled") => pxReply.status = 502
        /\ (/\ cbLast.op = "canExecute" /\ cbLast.before.state = "OPEN"
            /\ ~cbLast.ret) => pxReply.status = 503 /\ pxUpCalls = 0

----------------------------------------------------------------------------
\* the last validateApiKey call was for the tenant's key and the cache
\* answered it
AnsweredForTenant == vaLog.n > 0 /\ vaLog.key = TenantKey /\ ~vaLog.out.threw

ServedFromCache(tenant) ==
    /\ vaLog.out.storeReads = 0
    /\ vaLog.out.compares = 0
    /\ vaLog.out.tenant = tenant

C25_CacheErrorsDegrade ==
    (vaLog.n > 0 /\ vaLog.out.fault # "none") =>
        /\ ~vaLog.out.threw
        /\ vaLog.out.tenant = IF vaLog.key = TenantKey /\ vaLog.activeAt
                              THEN <<TenantView(TRUE)>> ELSE <<>>

----------------------------------------------------------------------------
\* the selections position from + 1 .. from + len of a route picked upstream u
PickedIn(picks, from, len, u) ==
    Cardinality({i \in (from + 1)..(from + len) : picks[i] = u})

\* C26: on a route with n >= 2 upstreams and strategy round-robin the
\* selections for that routeId go through the list in order starting from the
\* first, whatever is selected for other routes in between, so k*n consecutive
\* selections pick each upstream exactly k times.
C26_RoundRobin ==
    \A r \in 1..Len(rs.routes) :
        LET n == rs.routes[r].n
            picks == rs.picks[rs.routes[r].id]
        IN (n >= 2 /\ rs.routes[r].loadBalancing = "round-robin") =>
              /\ \A i \in 1..Len(picks) : picks[i] = ((i - 1) % n) + 1
              /\ \A from \in 0..Len(picks), k \in 1..Len(picks) :
                    from + k * n <= Len(picks) =>
                        \A u \in 1..n : PickedIn(picks, from, k * n, u) = k

\* two rounds on a route of two upstreams, with selections for the other
\* round-robin route in between
C26_Witness ==
    /\ Len(rs.routes) = 2
    /\ \A r \in 1..2 : rs.routes[r].n = 2 /\ rs.routes[r].loadBalancing = "round-robin"
    /\ rs.picks[1] = <<1, 2, 1, 2>>
    /\ rs.picks[2] = <<1>>

----------------------------------------------------------------------------
\* route j passes the checks of matchRoute for the request of the last call
Matches(j) ==
    /\ rs.routes[j].method = "*" \/ rs.routes[j].method = rs.last.method
    /\ matchPath(rs.routes[j].path, rs.last.path, rs.routes[j].pathType)

\* C27: matchRoute returns the first route, in the store's order of the
\* tenant's active routes, whose method is '*' or the request's and whose path
\* matches under its pathType, whatever the path types of the routes after
\* it; it returns null exactly when no route matches.
C27_FirstMatchWins ==
    rs.last.method # "none" =>
        /\ rs.last.route = 0 <=> \A j \in 1..Len(rs.routes) : ~Matches(j)
        /\ rs.last.route # 0 =>
              /\ rs.last.route \in 1..Len(rs.routes)
              /\ Matches(rs.last.route)
              /\ \A j \in 1..(rs.last.route - 1) : ~Matches(j)

\* a prefix route stored before an exact route wins a request both match
C27_Witness ==
    /\ Len(rs.routes) = 2
    /\ rs.routes[1].pathType = "prefix" /\ rs.routes[2].pathType = "exact"
    /\ rs.last.path = PathAB
    /\ Matches(1) /\ Matches(2)
    /\ rs.last.route = 1

----------------------------------------------------------------------------
\* C28: withRetry with enabled=false invokes fn exactly once, never invokes
\* onRetry, never sleeps, and returns attempts=1 with success telling whether
\* that invocation resolved, also when the error thrown is a retryable one.
C28_DisabledCallsOnce ==
    ~rtCfg.enabled =>
        /\ rtCalls <= 1 /\ rtOnRetry = 0 /\ rtPc # "sleep" /\ now = 0
        /\ rtPc = "done" <=> rtCalls = 1
        /\ rtPc = "done" =>
              /\ rtResult[1].attempts = 1
              /\ rtResult[1].success <=> rtResult[1].error = <<>>
              /\ rtResult[1].success => rtResult[1].result # <<>>

\* a disabled run returned after fn threw an error the loop would retry
C28_Witness ==
    /\ ~rtCfg.enabled /\ rtCfg.maxRetries > 0
    /\ rtPc = "done" /\ rtCalls = 1
    /\ ~rtResult[1].success
    /\ ~NonRetryable(rtResult[1].error[1], rtCfg)

----------------------------------------------------------------------------
\* C29: the result of a request of tenant A (allowed, remaining, resetAt,
\* limit) is the one it gets in the run that differs only in that tenant B
\* issues no request, and so is the sorted set under A's key.
C29_TenantIsolation ==
    /\ iso.last = iso.lastAlone
    /\ ZsetOf(iso.store, iso.expire, RlRedisKey(getTenantRateLimitKey("A")), now)
           = LiveSet(iso.alone, iso.aloneExpireAt, now)

\* A is within its limit in a window in which B has used up its own
C29_Witness ==
    /\ iso.last.at = now /\ iso.last.allowed
    /\ iso.last.remaining = EffectiveLimit(rlCfg) - 1
    /\ Cardinality(ZsetOf(iso.store, iso.expire,
                          RlRedisKey(getTenantRateLimitKey("B")), now))
           = EffectiveLimit(rlCfg)

\* C30: a denied checkRateLimit call leaves under the key exactly the members
\* that were there after its eviction and before its own ZADD.
C30_DenialRemovesOnlyOwnMember ==
    (rlCalls > 0 /\ rlLast.at = now /\ ~rlLast.allowed) =>
        LiveSet(zset, rlExpireAt, now) = rlLast.evicted

----------------------------------------------------------------------------
\* C31: a validateApiKey call for the tenant's key that returns 5 s or more
\* after the tenant was deactivated in the store returns null.
C31_DeactivationBounded ==
    (/\ vaProc.deactivatedAt # Null /\ vaProc.last.at # Null
     /\ vaProc.last.at - vaProc.deactivatedAt >= TENANT_CACHE_TTL_SECONDS * 1000) =>
        vaProc.last.tenant = <<>>

\* C32: if the breaker is OPEN and from then on requests keep arriving and
\* every upstream response is 2xx, the breaker eventually is CLOSED and stays
\* CLOSED.
C32_RecoveryIsLive ==
    (OutageOver /\ StoredState = "OPEN")
        ~> [](getStatus(cbStored, cbExpireAt, now).state = "CLOSED")

\* the success that closes the breaker after the outage, on a key that is
\* still alive
C32_Witness ==
    /\ OutageOver /\ cbOpenedAt # Null
    /\ cbCfg.successThreshold >= 2
    /\ cbLast.op = "recordSuccess" /\ cbLast.before.state = "HALF_OPEN"
    /\ cbLast.before.lastStateChange > cbOpenedAt
    /\ StoredState = "CLOSED" /\ now < cbExpireAt

\* C33: the state getStatus() observes never goes from OPEN to CLOSED in one
\* step: an OPEN breaker is next observed OPEN or HALF_OPEN, whatever time
\* passes without a request.
C33_OpenLeavesThroughHalfOpen ==
    [][getStatus(cbStored, cbExpireAt, now).state = "OPEN" =>
           getStatus(cbStored', cbExpireAt', now').state # "CLOSED"]_vars

\* C34: under any interleaving of the reads and writes of concurrent breaker
\* operations, a stored OPEN is never replaced by CLOSED: the state stored
\* after OPEN is OPEN or HALF_OPEN.
C34_NoStaleReclose ==
    [][StoredState = "OPEN" => StoredState' # "CLOSED"]_vars

\* C35: when failureThreshold recordFailure() calls have completed from
\* CLOSED with no other breaker operation among them and none in flight, the
\* stored state is OPEN.
C35_NoLostFailure ==
    (/\ cbProc.begun["recordSuccess"] = 0 /\ cbProc.begun["canExecute"] = 0
     /\ cbProc.done["recordFailure"] >= cbCfg.failureThreshold
     /\ \A p \in 1..MaxCallers : cbProc.pc[p] = "idle")
        => StoredState = "OPEN"

\* C36: a recordSuccess() or recordFailure() call that finds the breaker OPEN
\* leaves the stored record and the key's expiry as they were.
C36_OpenIsFrozen ==
    [][(/\ getStatus(cbStored, cbExpireAt, now).state = "OPEN"
        /\ cbLast' # cbLast
        /\ cbLast'.op \in {"recordSuccess", "recordFailure"})
       => /\ cbLast'.before.state = "OPEN"
          /\ <<cbStored, cbExpireAt>>' = <<cbStored, cbExpireAt>>]_vars

\* a failure reported while the breaker is OPEN, after the instant it opened
C36_Witness ==
    /\ cbCfg.enabled /\ StoredState = "OPEN" /\ now < cbExpireAt
    /\ cbLast.op = "recordFailure" /\ cbLast.before.state = "OPEN"
    /\ cbOpenedAt # Null /\ cbLast.at > cbOpenedAt
    /\ cbStored[1].lastFailureTime = cbOpenedAt
    /\ cbExpireAt = cbOpenedAt + getTtl(cbCfg) * 1000

\* the counters a status may carry in its state
WellFormed(status) ==
    /\ status.state = "CLOSED" =>
           status.failures < cbCfg.failureThreshold /\ status.successes = 0
    /\ status.state = "HALF_OPEN" => status.successes < cbCfg.successThreshold
    /\ status.state = "OPEN" =>
           /\ status.successes = 0 /\ status.failures >= 1
           /\ status.lastFailureTime # Null

\* C37: with operations run one after another, the status stored and the
\* status getStatus() returns are well formed: CLOSED has failures below
\* failureThreshold and no successes, HALF_OPEN has successes below
\* successThreshold, OPEN has no successes, at least one failure and a
\* lastFailureTime.
C37_StatusWellFormed ==
    /\ WellFormed(getStatus(cbStored, cbExpireAt, now))
    /\ cbStored # <<>> => WellFormed(cbStored[1])

\* the breaker re-opened from HALF_OPEN after successes had been counted
C37_Witness ==
    /\ cbCfg.enabled /\ StoredState = "OPEN" /\ now < cbExpireAt
    /\ cbStored[1].failures > cbCfg.failureThreshold
    /\ cbLast.op = "recordFailure" /\ cbLast.before.state = "HALF_OPEN"
    /\ cbLast.before.successes >= 1

\* C38: handleProxy makes at most one recordSuccess() / recordFailure() call
\* for a request.
C38_OneOutcomePerRequest == Len(pxRec) <= 1

\* C39: isHealthy() of an upstream reported unhealthy answers true again only
\* at a probe write that carries healthyThreshold consecutive successes.
C39_UnhealthyUntilProbed ==
    [][(/\ ~hcGetStatus(hcStored, hcExpireAt, now).healthy
        /\ hcGetStatus(hcStored', hcExpireAt', now').healthy)
       => /\ hcProbes' = hcProbes + 1
          /\ hcStored'[1].consecutiveSuccesses >= hcCfg.healthyThreshold]_vars

\* C40: while the status key has not had the time to expire, the stored
\* consecutiveFailures is the number of failed probes completed since the last
\* successful one, and consecutiveSuccesses the number of successful probes
\* completed since the last failed one, also when probes overlap.
C40_CountersMatchProbes ==
    (hcStored # <<>> /\ now < hcTtlMs(hcCfg)) =>
        /\ hcStored[1].consecutiveFailures = hcRun.runs.failed
        /\ hcStored[1].consecutiveSuccesses = hcRun.runs.ok

====
